---- MODULE Spec2Model ----
(***************************************************************************)
(* Typing-session measurement engine of the typing speed test.             *)
(*                                                                         *)
(* The TypingTest component (React 18, function component with hooks) is   *)
(* modelled together with the part of App that renders it, passes the     *)
(* settings prop and receives onTestComplete.  The model follows one       *)
(* mounted TypingTest from page load until it leaves the tree, and the     *)
(* timers it created for as long as they live.  One action of the model is *)
(* one browser task: a DOM event handler, a setTimeout/setInterval         *)
(* callback, or a step of the wall clock.  React 18 batches every setState *)
(* made inside one task, then renders and runs the effects whose           *)
(* dependencies changed; effects that set state cause a further render.    *)
(* That whole cascade is part of the action (operator Commit).             *)
(*                                                                         *)
(* Closures: an interval or timeout callback sees the values of the render *)
(* in which it was created, not the current ones.  The values a callback   *)
(* captured are stored in the record of the timer.                         *)
(*                                                                         *)
(* Strings are sequences of one-character strings.  Time is counted in     *)
(* interval periods (100 ms in the source); timeElapsed is kept in the     *)
(* same unit, timeLimit in seconds.  The clock is not a variable: the      *)
(* source reads Date.now() only to subtract startTimeRef.current from it   *)
(* or to set startTimeRef.current, so the model keeps the difference.      *)
(***************************************************************************)
EXTENDS Integers, Sequences, FiniteSets, TLC

\* ------------------------------------------------------------------ bounds
\* interval periods per second (the source has 1000 ms / 100 ms)
TicksPerSecond == 2
\* largest selectable time limit, in seconds (the source offers 15..120)
MaxTimeLimit == 1
\* longest time since the session start that is followed, in interval periods
MaxClock == 3
\* number of countdown timeouts that may be pending at once
MaxPending == 2
\* number of interval timers that may be live at once
MaxIntervals == 2
\* number of results the store receives within one behaviour
MaxSaved == 2
\* number of sessions (the mount and the restarts) within one behaviour
MaxSessions == 2
\* longest string passed to a function of typingLogic.js called on its own
MaxStrLen == 3

\* ------------------------------------------------------------------ corpus
SP == " "
\* the tab character, whitespace that is not a space
TAB == "\t"
\* wordList.js commonWords, cut down to one one-letter word
commonWords == << <<"a">> >>
\* wordList.js sentences, cut down to one sentence
sentences == << <<"a", "a">> >>
\* characters the keyboard can produce
Alphabet == {"a", SP}
\* characters of the strings passed to a function called on its own
CallAlphabet == {"a", "b", SP, TAB}
\* characters of the texts passed to analyzeTypedText called on its own
AnalyzeAlphabet == {"a", "b", "c", "d"}
TimeLimitOptions == 1..MaxTimeLimit
TextModes == {"words", "sentences"}

\* ------------------------------------------------------------ string helpers
Min(a, b) == IF a <= b THEN a ELSE b
Max(a, b) == IF a >= b THEN a ELSE b

\* String.prototype.substring(0, n)
Prefix(s, n) == SubSeq(s, 1, Min(n, Len(s)))

\* the whitespace String.prototype.trim removes, as far as it is modelled
IsWhitespace(c) == c \in {SP, TAB}

RECURSIVE TrimStart(_)
TrimStart(s) ==
  IF s = <<>> THEN <<>>
  ELSE IF IsWhitespace(Head(s)) THEN TrimStart(Tail(s)) ELSE s

RECURSIVE TrimEnd(_)
TrimEnd(s) ==
  IF s = <<>> THEN <<>>
  ELSE IF IsWhitespace(s[Len(s)]) THEN TrimEnd(SubSeq(s, 1, Len(s) - 1)) ELSE s

\* String.prototype.trim
Trim(s) == TrimEnd(TrimStart(s))

\* Array.prototype.join(' ')
RECURSIVE JoinSpace(_)
JoinSpace(ws) ==
  IF ws = <<>> THEN <<>>
  ELSE IF Len(ws) = 1 THEN ws[1]
  ELSE ws[1] \o <<SP>> \o JoinSpace(Tail(ws))

\* all sequences of exactly n elements of S
RECURSIVE SeqsOfLen(_, _)
SeqsOfLen(S, n) ==
  IF n = 0 THEN {<<>>}
  ELSE {Append(q, x) : q \in SeqsOfLen(S, n - 1), x \in S}

\* all sequences of at most n elements of S
SeqsUpTo(S, n) == UNION {SeqsOfLen(S, k) : k \in 0..n}

\* ------------------------------------------------------------ text generator
\* generateRandomWords drawing one word too few
generateRandomWords_OneShort(words, wordCount) ==
  {JoinSpace([i \in 1..(wordCount - 1) |-> words[ix[i]]]) :
      ix \in SeqsOfLen(1..Len(words), Max(0, wordCount - 1))}

\* generateRandomWords: every outcome of the wordCount random draws
generateRandomWords(words, wordCount) ==
  {JoinSpace([i \in 1..wordCount |-> words[ix[i]]]) :
      ix \in SeqsOfLen(1..Len(words), wordCount)}

\* buffer by which generateRandomSentences may overshoot the target length
SentenceBuffer == 50

\* the while loop of generateRandomSentences drawing among all sentences,
\* the used ones included
RECURSIVE SentenceLoop_Reuse(_, _, _, _)
SentenceLoop_Reuse(sents, targetLength, text, used) ==
  IF Len(text) < targetLength /\ Cardinality(used) < Len(sents)
  THEN UNION {
         IF Len(text) + Len(sents[i]) + 1 <= targetLength + SentenceBuffer
         THEN SentenceLoop_Reuse(sents, targetLength,
                text \o (IF text # <<>> THEN <<SP>> ELSE <<>>) \o sents[i],
                used \cup {i})
         ELSE {text}
         : i \in 1..Len(sents) }
  ELSE {text}

\* one iteration of the while loop of generateRandomSentences, for every
\* outcome of the draw of an unused index
RECURSIVE SentenceLoop(_, _, _, _)
SentenceLoop(sents, targetLength, text, used) ==
  IF Len(text) < targetLength /\ Cardinality(used) < Len(sents)
  THEN UNION {
         IF Len(text) + Len(sents[i]) + 1 <= targetLength + SentenceBuffer
         THEN SentenceLoop(sents, targetLength,
                text \o (IF text # <<>> THEN <<SP>> ELSE <<>>) \o sents[i],
                used \cup {i})
         ELSE {text}
         : i \in (1..Len(sents)) \ used }
  ELSE {text}

generateRandomSentences(sents, targetLength) ==
  {IF t # <<>> THEN t ELSE sents[1] :
      t \in SentenceLoop(sents, targetLength, <<>>, {})}

\* String.prototype.indexOf(' '): the index from 0 of the first space, or -1
RECURSIVE IndexOfSpace(_)
IndexOfSpace(s) ==
  IF s = <<>> THEN -1
  ELSE IF Head(s) = SP THEN 0
  ELSE LET rest == IndexOfSpace(Tail(s))
       IN  IF rest = -1 THEN -1 ELSE rest + 1

\* String.prototype.substring(n): a start beyond the end gives ''
SubstringFrom(s, n) == SubSeq(s, Min(n, Len(s)) + 1, Len(s))

\* String.prototype.substring(0, n): a negative end counts as 0
SubstringTo(s, n) == Prefix(s, Max(0, n))

\* fewest words of one run of words in generateMixedText
MinRunWords == 5
\* number of different lengths of a run of words: 5 to 14 words
RunWordsRange == 10
\* overshoot at which the loop of generateMixedText breaks
MixedBuffer == 100

\* what one iteration of the loop of generateMixedText appends: a run of
\* words or one sentence, for every outcome of the draws
MixedPieces(words, sents, useWords) ==
  IF useWords
  THEN UNION {generateRandomWords(words, wordCount) :
                wordCount \in MinRunWords..(MinRunWords + RunWordsRange - 1)}
  ELSE {sents[i] : i \in 1..Len(sents)}

\* the while loop of generateMixedText: every text it can accumulate
RECURSIVE MixedLoop(_, _, _, _, _)
MixedLoop(words, sents, targetLength, text, useWords) ==
  IF Len(text) < targetLength
  THEN UNION {
         LET grown == text \o (IF text # <<>> THEN <<SP>> ELSE <<>>) \o piece
         IN  IF Len(grown) > targetLength + MixedBuffer
             THEN {grown}
             ELSE MixedLoop(words, sents, targetLength, grown, ~useWords)
         : piece \in MixedPieces(words, sents, useWords) }
  ELSE {text}

\* the return expression of generateMixedText
MixedCut(text, targetLength) ==
  SubstringTo(text,
    targetLength + IndexOfSpace(SubstringFrom(text, targetLength)))

generateMixedText(words, sents, targetLength) ==
  {MixedCut(text, targetLength) :
      text \in UNION {MixedLoop(words, sents, targetLength, <<>>, useWords) :
                        useWords \in BOOLEAN}}

\* generateText: every text it can return
generateText(words, sents, mode, length) ==
  CASE mode = "words" -> generateRandomWords(words, length)
    [] mode = "sentences" -> generateRandomSentences(sents, length)
    [] mode = "mixed" -> generateMixedText(words, sents, length)
    [] OTHER -> generateRandomWords(words, length)

\* characters per estimated word in generateTextForTime
CharsPerWord == 5

\* generateTextForTime: estimatedWords = ceil(timeLimit/60 * 40 * 1.5), which
\* is timeLimit itself
generateTextForTime(timeLimit, mode) ==
  LET estimatedWords == timeLimit
  IN  IF mode = "words"
      THEN generateRandomWords(commonWords, estimatedWords)
      ELSE generateRandomSentences(sentences, estimatedWords * CharsPerWord)

AllTexts ==
  UNION {generateTextForTime(tl, m) : tl \in TimeLimitOptions, m \in TextModes}

\* ------------------------------------------------------------- typing logic
\* checkEndConditions comparing the texts as they are, without trim()
checkEndConditions_NoTrim(originalText, typedText, timeLimit, timeElapsed) ==
  LET timeUp == timeElapsed >= timeLimit
      textCompleted ==
        /\ Len(typedText) >= Len(originalText)
        /\ typedText = Prefix(originalText, Len(typedText))
  IN  [shouldEnd |-> timeUp \/ textCompleted,
       reason |-> IF timeUp THEN "time"
                  ELSE IF textCompleted THEN "completed" ELSE "null",
       timeUp |-> timeUp,
       textCompleted |-> textCompleted]

\* checkEndConditions naming the reason with the text completion first
checkEndConditions_TextFirst(originalText, typedText, timeLimit, timeElapsed) ==
  LET timeUp == timeElapsed >= timeLimit
      textCompleted ==
        /\ Len(typedText) >= Len(originalText)
        /\ Trim(typedText) = Trim(Prefix(originalText, Len(typedText)))
  IN  [shouldEnd |-> timeUp \/ textCompleted,
       reason |-> IF textCompleted THEN "completed"
                  ELSE IF timeUp THEN "time" ELSE "null",
       timeUp |-> timeUp,
       textCompleted |-> textCompleted]

\* checkEndConditions; elapsed and limit in the same unit
checkEndConditions(originalText, typedText, timeLimit, timeElapsed) ==
  LET timeUp == timeElapsed >= timeLimit
      textCompleted ==
        /\ Len(typedText) >= Len(originalText)
        /\ Trim(typedText) = Trim(Prefix(originalText, Len(typedText)))
  IN  [shouldEnd |-> timeUp \/ textCompleted,
       reason |-> IF timeUp THEN "time"
                  ELSE IF textCompleted THEN "completed" ELSE "null",
       timeUp |-> timeUp,
       textCompleted |-> textCompleted]

\* s[i] || '' of the source, i counted from 0
CharAt(s, i) == IF i < Len(s) THEN s[i + 1] ELSE ""

\* the body of the for loop of analyzeTypedText counting positions from 1
AnalyzeStep_OneBased(originalText, typedText, i, analysis) ==
  LET originalChar == CharAt(originalText, i)
      typedChar == CharAt(typedText, i)
  IN  IF i < Len(typedText) /\ i < Len(originalText)
      THEN IF originalChar = typedChar
           THEN [analysis EXCEPT
                   !.correctCharacters = @ + 1,
                   !.characterStates = Append(@, "correct")]
           ELSE [analysis EXCEPT
                   !.incorrectCharacters = @ + 1,
                   !.characterStates = Append(@, "incorrect"),
                   !.mistakes = Append(@,
                      [position |-> i + 1, expected |-> originalChar,
                       typed |-> typedChar, type |-> "substitution"])]
      ELSE IF i >= Len(typedText)
      THEN [analysis EXCEPT !.characterStates = Append(@, "missed")]
      ELSE [analysis EXCEPT
              !.incorrectCharacters = @ + 1,
              !.characterStates = Append(@, "extra"),
              !.mistakes = Append(@,
                 [position |-> i + 1, expected |-> "",
                  typed |-> typedChar, type |-> "insertion"])]

\* the body of the for loop of analyzeTypedText for position i
AnalyzeStep(originalText, typedText, i, analysis) ==
  LET originalChar == CharAt(originalText, i)
      typedChar == CharAt(typedText, i)
  IN  IF i < Len(typedText) /\ i < Len(originalText)
      THEN IF originalChar = typedChar
           THEN [analysis EXCEPT
                   !.correctCharacters = @ + 1,
                   !.characterStates = Append(@, "correct")]
           ELSE [analysis EXCEPT
                   !.incorrectCharacters = @ + 1,
                   !.characterStates = Append(@, "incorrect"),
                   !.mistakes = Append(@,
                      [position |-> i, expected |-> originalChar,
                       typed |-> typedChar, type |-> "substitution"])]
      ELSE IF i >= Len(typedText)
      THEN [analysis EXCEPT !.characterStates = Append(@, "missed")]
      ELSE [analysis EXCEPT
              !.incorrectCharacters = @ + 1,
              !.characterStates = Append(@, "extra"),
              !.mistakes = Append(@,
                 [position |-> i, expected |-> "",
                  typed |-> typedChar, type |-> "insertion"])]

\* the for loop of analyzeTypedText from position i on
RECURSIVE AnalyzeLoop(_, _, _, _, _)
AnalyzeLoop(originalText, typedText, maxLength, i, analysis) ==
  IF i < maxLength
  THEN AnalyzeLoop(originalText, typedText, maxLength, i + 1,
                   AnalyzeStep(originalText, typedText, i, analysis))
  ELSE analysis

\* the analysis object analyzeTypedText starts with
NewAnalysis(typedText) ==
  [correctCharacters |-> 0, incorrectCharacters |-> 0,
   totalCharacters |-> Len(typedText), mistakes |-> <<>>,
   characterStates |-> <<>>]

\* analyzeTypedText looping over the positions of the original text only
analyzeTypedText_TargetLength(originalText, typedText) ==
  AnalyzeLoop(originalText, typedText, Len(originalText), 0,
              NewAnalysis(typedText))

\* analyzeTypedText looping over the positions of the typed text only
analyzeTypedText_TypedLength(originalText, typedText) ==
  AnalyzeLoop(originalText, typedText, Len(typedText), 0,
              NewAnalysis(typedText))

\* analyzeTypedText
analyzeTypedText(originalText, typedText) ==
  LET maxLength == Max(Len(originalText), Len(typedText))
  IN  AnalyzeLoop(originalText, typedText, maxLength, 0,
                  NewAnalysis(typedText))

\* getCharacterStates looking for the cursor before the typed characters
getCharacterStates_CursorFirst(originalText, typedText, currentPosition) ==
  [n \in 1..Len(originalText) |->
     LET i == n - 1
     IN  IF i = currentPosition THEN "current"
         ELSE IF i < Len(typedText)
         THEN IF originalText[n] = typedText[n] THEN "correct" ELSE "incorrect"
         ELSE "pending"]

\* getCharacterStates: one state per character of the original text, the
\* index i counted from 0 as in the code
getCharacterStates(originalText, typedText, currentPosition) ==
  [n \in 1..Len(originalText) |->
     LET i == n - 1
     IN  IF i < Len(typedText)
         THEN IF originalText[n] = typedText[n] THEN "correct" ELSE "incorrect"
         ELSE IF i = currentPosition THEN "current"
         ELSE "pending"]

\* ------------------------------------------------------- Number arithmetic
\* A JavaScript Number is an IEEE 754 binary64 value.  The values the
\* typing functions compute are zero or positive and finite; such a value is
\* m * 2^e with a 53 bit mantissa m, kept as three limbs of 21 bits, least
\* significant first.

\* 2^21, the base of a limb
LimbBase == 2097152
BigZero == <<0, 0, 0>>
BigOne == <<1, 0, 0>>
\* 2^52 and 2^53: a mantissa m satisfies Two52 <= m < Two53
Two52 == <<0, 0, 1024>>
Two53 == <<0, 0, 2048>>

BigFromInt(n) == <<n % LimbBase, n \div LimbBase, 0>>
BigToInt(a) == a[1] + LimbBase * a[2]
BigCarry(l0, l1, l2) ==
  LET s1 == l1 + (l0 \div LimbBase)
  IN  <<l0 % LimbBase, s1 % LimbBase, l2 + (s1 \div LimbBase)>>
BigAdd(a, b) == BigCarry(a[1] + b[1], a[2] + b[2], a[3] + b[3])
BigSub(a, b) == BigCarry(a[1] - b[1], a[2] - b[2], a[3] - b[3])
BigDouble(a) == BigAdd(a, a)
BigMulSmall(a, k) == BigCarry(a[1] * k, a[2] * k, a[3] * k)
BigHalf(a) ==
  <<(a[1] \div 2) + (a[2] % 2) * (LimbBase \div 2),
    (a[2] \div 2) + (a[3] % 2) * (LimbBase \div 2),
    a[3] \div 2>>
BigOdd(a) == a[1] % 2 = 1
BigLess(a, b) ==
  \/ a[3] < b[3]
  \/ a[3] = b[3] /\ a[2] < b[2]
  \/ a[3] = b[3] /\ a[2] = b[2] /\ a[1] < b[1]

\* 2^7: the division develops its quotient in digits of seven bits, and
\* shifts move by seven bits while they can
DigitBase == 128
DigitBits == 7
RECURSIVE BigShiftLeft(_, _)
BigShiftLeft(a, k) ==
  IF a = BigZero THEN a
  ELSE IF k >= DigitBits
  THEN BigShiftLeft(BigMulSmall(a, DigitBase), k - DigitBits)
  ELSE IF k > 0 THEN BigShiftLeft(BigDouble(a), k - 1)
  ELSE a

\* floor(a / 2^7)
BigDropDigit(a) ==
  <<(a[1] \div DigitBase) + (a[2] % DigitBase) * (LimbBase \div DigitBase),
    (a[2] \div DigitBase) + (a[3] % DigitBase) * (LimbBase \div DigitBase),
    a[3] \div DigitBase>>

RECURSIVE BigShiftRight(_, _)
BigShiftRight(a, k) ==
  IF a = BigZero THEN a
  ELSE IF k >= DigitBits THEN BigShiftRight(BigDropDigit(a), k - DigitBits)
  ELSE IF k > 0 THEN BigShiftRight(BigHalf(a), k - 1)
  ELSE a

\* the Number 0
NumZero == [m |-> BigZero, e |-> 0]

\* 2^45: a mantissa below it can move up by a whole digit
Two45 == <<0, 0, 8>>

\* m * 2^e with m < 2^52 is a Number exactly
RECURSIVE NormalizeUp(_, _)
NormalizeUp(m, e) ==
  IF BigLess(m, Two45)
  THEN NormalizeUp(BigMulSmall(m, DigitBase), e - DigitBits)
  ELSE IF BigLess(m, Two52) THEN NormalizeUp(BigDouble(m), e - 1)
  ELSE [m |-> m, e |-> e]

\* rounds m * 2^e, m >= 2^52, to 53 bits, to nearest and ties to even; half
\* is the last bit shifted out and sticky tells whether a bit after it was set
RECURSIVE RoundDown(_, _, _, _)
RoundDown(m, e, half, sticky) ==
  IF ~BigLess(m, Two53)
  THEN RoundDown(BigHalf(m), e + 1, BigOdd(m), half \/ sticky)
  ELSE LET r == IF half /\ (sticky \/ BigOdd(m)) THEN BigAdd(m, BigOne)
                ELSE m
       IN  IF r = Two53 THEN [m |-> Two52, e |-> e + 1]
           ELSE [m |-> r, e |-> e]

\* the Number nearest to m * 2^e (plus a positive fraction of 2^e if sticky)
RoundToNumber(m, e, sticky) ==
  IF m = BigZero THEN NumZero
  ELSE IF BigLess(m, Two52) THEN NormalizeUp(m, e)
  ELSE RoundDown(m, e, FALSE, sticky)

\* the Number of an integer 0 <= n < 2^31
ToNumber(n) == RoundToNumber(BigFromInt(n), 0, FALSE)

\* the next digit of the quotient, floor(r / b) for r < 2^7 * b: the quotient
\* of the leading limbs, taken low, is the digit or one less
DivDigit(r, b) ==
  LET low == r[3] \div (b[3] + 1)
  IN  IF BigLess(r, BigMulSmall(b, low + 1)) THEN low ELSE low + 1

\* 2^55: the quotient of two mantissas, which lies between 1/2 and 2, has
\* reached it when QuotientBits bits have been developed after its integer
\* part
Two55 == <<0, 0, 8192>>
QuotientBits == 56

\* the long division by b: q is the quotient developed so far and r the
\* remainder left
RECURSIVE DivLoop(_, _, _)
DivLoop(r, b, q) ==
  IF ~BigLess(q, Two55) THEN [q |-> q, r |-> r]
  ELSE LET shifted == BigMulSmall(r, DigitBase)
           d == DivDigit(shifted, b)
       IN  DivLoop(BigSub(shifted, BigMulSmall(b, d)), b,
                   BigAdd(BigMulSmall(q, DigitBase), BigFromInt(d)))

\* x / y of two Numbers, y not zero: the quotient of the mantissas developed
\* to QuotientBits bits after its integer part and rounded to 53 bits
NumDiv(x, y) ==
  IF x.m = BigZero THEN NumZero
  ELSE LET d == IF BigLess(x.m, y.m) THEN DivLoop(x.m, y.m, BigZero)
                ELSE DivLoop(BigSub(x.m, y.m), y.m, BigOne)
       IN  RoundToNumber(d.q, (x.e - y.e) - QuotientBits, d.r # BigZero)

\* x * k of a Number and an integer literal 0 < k <= 1000
NumMulSmall(x, k) == RoundToNumber(BigMulSmall(x.m, k), x.e, FALSE)

\* x <= y of two Numbers
NumLeq(x, y) ==
  \/ x.m = BigZero
  \/ /\ y.m # BigZero
     /\ \/ x.e < y.e
        \/ x.e = y.e /\ ~BigLess(y.m, x.m)

\* Math.round of a Number below 2^30: floor(x + 1/2) computed exactly; the
\* result is an integer
MathRound(x) == (BigToInt(BigShiftRight(x.m, (-x.e) - 1)) + 1) \div 2

\* calculateWPM
calculateWPM(charactersTyped, timeElapsed) ==
  IF timeElapsed = 0 THEN 0
  ELSE LET minutes == NumDiv(ToNumber(timeElapsed), ToNumber(60))
           words == NumDiv(ToNumber(charactersTyped), ToNumber(5))
       IN  MathRound(NumDiv(words, minutes))

\* calculateAccuracy rounding to whole percents
calculateAccuracy_WholePercent(correctCharacters, totalCharacters) ==
  IF totalCharacters = 0 THEN ToNumber(100)
  ELSE ToNumber(MathRound(NumMulSmall(
         NumDiv(ToNumber(correctCharacters), ToNumber(totalCharacters)),
         100)))

\* calculateAccuracy
calculateAccuracy(correctCharacters, totalCharacters) ==
  IF totalCharacters = 0 THEN ToNumber(100)
  ELSE NumDiv(ToNumber(MathRound(NumMulSmall(
                NumDiv(ToNumber(correctCharacters),
                       ToNumber(totalCharacters)),
                1000))),
              ToNumber(10))

\* ------------------------------------------------- values of any kind
\* A division by zero and a subtraction leave the zero or positive finite
\* Numbers.  A value of any kind is finite, an infinity or NaN; neg is its
\* sign and abs its magnitude when it is finite.
NaN == [kind |-> "NaN", neg |-> FALSE, abs |-> NumZero]
Infinity(neg) == [kind |-> "Infinity", neg |-> neg, abs |-> NumZero]
Finite(neg, x) == [kind |-> "finite", neg |-> neg, abs |-> x]

\* x / y of two Numbers: x / 0 is Infinity and 0 / 0 is NaN
Divide(x, y) ==
  IF y.m = BigZero
  THEN IF x.m = BigZero THEN NaN ELSE Infinity(FALSE)
  ELSE Finite(FALSE, NumDiv(x, y))

\* bits by which the larger mantissa of a subtraction is moved up before
\* the smaller is taken from it
GuardBits == 9

\* x - y of two Numbers, x >= y > 0: exact when the exponents are at most
\* GuardBits apart; otherwise the bits of y below the guard bits are
\* gathered in a sticky bit
NumSub(x, y) ==
  LET d == x.e - y.e
  IN  IF d <= GuardBits
      THEN RoundToNumber(BigSub(BigShiftLeft(x.m, d), y.m), y.e, FALSE)
      ELSE LET kept == BigShiftRight(y.m, d - GuardBits)
               sticky == BigShiftLeft(kept, d - GuardBits) # y.m
               big == BigSub(BigShiftLeft(x.m, GuardBits), kept)
           IN  RoundToNumber(IF sticky THEN BigSub(big, BigOne) ELSE big,
                             x.e - GuardBits, sticky)

\* x - v of a Number x and a zero or positive value v of any kind
Subtract(x, v) ==
  CASE v.kind = "NaN" -> NaN
    [] v.kind = "Infinity" -> Infinity(TRUE)
    [] OTHER ->
         IF v.abs.m = BigZero THEN Finite(FALSE, x)
         ELSE IF x.m = BigZero THEN Finite(TRUE, v.abs)
         ELSE IF NumLeq(v.abs, x) THEN Finite(FALSE, NumSub(x, v.abs))
         ELSE Finite(TRUE, NumSub(v.abs, x))

\* -Math.round(-x) of a Number x below 2^30, which is ceil(x - 1/2): with
\* t = floor(2x), it is floor(t / 2) when 2x is an integer and
\* floor((t + 1) / 2) when it is not
MathRoundNegated(x) ==
  LET shift == (-x.e) - 1
      t == BigShiftRight(x.m, shift)
  IN  IF BigShiftLeft(t, shift) = x.m THEN BigToInt(t) \div 2
      ELSE (BigToInt(t) + 1) \div 2

\* a result that is an integer or NaN
IntResult(n) == [kind |-> "finite", value |-> n]
NaNResult == [kind |-> "NaN", value |-> 0]

\* Math.max(0, Math.round(v)) of a value of any kind: NaN stays NaN,
\* whatever is negative gives 0
MaxZeroRound(v) ==
  CASE v.kind = "NaN" -> NaNResult
    [] v.kind = "Infinity" /\ v.neg -> IntResult(0)
    [] v.kind = "finite" /\ v.neg -> IntResult(Max(0, -MathRoundNegated(v.abs)))
    [] v.kind = "finite" /\ ~v.neg -> IntResult(Max(0, MathRound(v.abs)))

\* calculateNetWPM charging one mistake more than were made
calculateNetWPM_OneMore(grossWPM, mistakes, timeElapsed) ==
  LET minutes == NumDiv(ToNumber(timeElapsed), ToNumber(60))
      errorPenalty == Divide(ToNumber(mistakes + 1), minutes)
  IN  MaxZeroRound(Subtract(ToNumber(grossWPM), errorPenalty))

\* calculateNetWPM: grossWPM is an integer, as calculateWPM returns it
calculateNetWPM(grossWPM, mistakes, timeElapsed) ==
  LET minutes == NumDiv(ToNumber(timeElapsed), ToNumber(60))
      errorPenalty == Divide(ToNumber(mistakes), minutes)
  IN  MaxZeroRound(Subtract(ToNumber(grossWPM), errorPenalty))

\* Math.min(100, v * 100) of a zero or positive value v of any kind
MinHundredPercent(v) ==
  CASE v.kind = "NaN" -> NaN
    [] v.kind = "Infinity" -> Finite(FALSE, ToNumber(100))
    [] OTHER ->
         LET percent == NumMulSmall(v.abs, 100)
         IN  IF NumLeq(percent, ToNumber(100)) THEN Finite(FALSE, percent)
             ELSE Finite(FALSE, ToNumber(100))

\* calculateRealTimeStats; timeElapsed in seconds
calculateRealTimeStats(originalText, typedText, timeElapsed) ==
  LET analysis == analyzeTypedText(originalText, typedText)
  IN  [wpm |-> calculateWPM(analysis.correctCharacters, timeElapsed),
       accuracy |-> calculateAccuracy(analysis.correctCharacters,
                                      analysis.totalCharacters),
       correctCharacters |-> analysis.correctCharacters,
       incorrectCharacters |-> analysis.incorrectCharacters,
       totalCharacters |-> analysis.totalCharacters,
       mistakes |-> Len(analysis.mistakes),
       progress |-> MinHundredPercent(
                      Divide(ToNumber(Len(typedText)),
                             ToNumber(Len(originalText))))]

\* -------------------------------------------------------------------- state
VARIABLES
  \* App
  currentView,     \* 'test' | 'results' | 'dashboard'
  settings,        \* the settings prop: [timeLimit, textMode]
  testResult,      \* result handed to App.handleTestComplete, or NoResult
  \* TypingTest
  testText, typedText, isActive, isPaused, timeElapsed, isComplete,
  timeLimit, textMode,
  session,         \* number of the session: the mount and each restart
  intervalRef,     \* intervalRef.current: id of an interval, or NULL
  sinceStart,      \* Date.now() - startTimeRef.current, or NoTime
  \* browser
  intervals,       \* id -> live interval with the values it captured
  pending,         \* countdown timeouts not yet fired, in order of creation
  \* localStorage
  saved,           \* results saveTestResult has stored, in order
  \* sounds.js
  audioContext,    \* whether the audio context has been created
  played,          \* the cues the last handler played
  \* the collaborators
  faults,          \* which of them throw in this behaviour
  \* history
  lastEvent,       \* the handler that ran last
  resumeMark,      \* elapsed time at the last pause and time since the resume
  \* a call of a function of typingLogic.js on its own
  call,            \* the function and its arguments
  ret,             \* what it returned
  \* saveTestResult and clearTestResults called on their own
  history,         \* the records written since the results were last cleared
  writes           \* number of records written so far

sessionVars == <<currentView, settings, testResult, testText, typedText,
                 isActive, isPaused, timeElapsed, isComplete, timeLimit,
                 textMode, session, intervalRef, sinceStart, intervals,
                 pending, saved, audioContext, played, faults, lastEvent,
                 resumeMark>>
callVars == <<call, ret>>
storeVars == <<history, writes>>
vars == <<sessionVars, callVars, storeVars>>

NULL == 0
NoTime == -1
NoTimer == [kind |-> "none"]
NoResult == [kind |-> "none"]
NoMark == [e |-> NoTime, dt |-> NoTime]
NoCall == [fn |-> "none"]
IntervalIds == 1..MaxIntervals

\* What the collaborators do in a behaviour: storage tells whether
\* localStorage.setItem throws; audio tells whether the creation of the
\* audio context throws ("context"), or the playing of a beep ("beep").
NoFaults == [storage |-> FALSE, audio |-> "none"]
AllFaults == [storage : BOOLEAN, audio : {"none", "context", "beep"}]

\* useState initial values of TypingTest for a given settings prop
InitialState(stg, sess) ==
  [testText |-> <<>>, typedText |-> <<>>, isActive |-> FALSE,
   isPaused |-> FALSE, timeElapsed |-> 0, isComplete |-> FALSE,
   timeLimit |-> stg.timeLimit, textMode |-> stg.textMode, session |-> sess]

\* The world a handler works on: every variable, plus
\*   ok      - FALSE once the handler went beyond a bound of the model
\*   gen     - the text the generator returns if it is called
\*   mounted - whether TypingTest is still mounted in this task
\*   thrown  - whether an exception is on its way up the call stack
World(genText) ==
  [ok |-> TRUE, gen |-> genText, mounted |-> currentView = "test",
   thrown |-> FALSE, faults |-> faults, audioContext |-> audioContext,
   played |-> {},
   view |-> currentView, settings |-> settings, testResult |-> testResult,
   st |-> [testText |-> testText, typedText |-> typedText,
           isActive |-> isActive, isPaused |-> isPaused,
           timeElapsed |-> timeElapsed, isComplete |-> isComplete,
           timeLimit |-> timeLimit, textMode |-> textMode,
           session |-> session],
   intervalRef |-> intervalRef, sinceStart |-> sinceStart,
   intervals |-> intervals, pending |-> pending, saved |-> saved]

\* what one render of TypingTest sees
Snapshot(w) == [st |-> w.st, settings |-> w.settings]

\* the session is Running
Running(st) == st.isActive /\ ~st.isPaused /\ ~st.isComplete

\* ------------------------------------------------------------------- timers
\* clearInterval(id).  If the ref held the id it is set to NULL: the id of a
\* dead interval is only ever passed to clearInterval again, which ignores it.
ClearInterval(w, id) ==
  IF id = NULL THEN w
  ELSE [w EXCEPT !.intervals[id] = NoTimer,
                 !.intervalRef = IF @ = id THEN NULL ELSE @]

FreeIds(w) == {id \in IntervalIds : w.intervals[id] = NoTimer}

\* intervalRef.current = setInterval(callback, 100)
SetInterval(w, timer) ==
  IF FreeIds(w) = {} THEN [w EXCEPT !.ok = FALSE]
  ELSE LET id == CHOOSE x \in FreeIds(w) : \A y \in FreeIds(w) : x <= y
       IN  [w EXCEPT !.intervals[id] = timer, !.intervalRef = id]

\* ------------------------------------------------------------------- sounds
\* initAudio: creates the audio context unless there is one
initAudio(w) ==
  IF w.audioContext THEN w
  ELSE IF w.faults.audio = "context" THEN [w EXCEPT !.thrown = TRUE]
  ELSE [w EXCEPT !.audioContext = TRUE]

\* createBeep
createBeep(w) ==
  LET w1 == initAudio(w)
  IN  IF w1.thrown THEN w1
      ELSE IF w1.faults.audio = "beep" THEN [w1 EXCEPT !.thrown = TRUE]
      ELSE w1

\* playSound: what its try block throws is caught.  The sound is enabled, as
\* it is unless the settings say otherwise.
playSound(w, soundName) ==
  LET w1 == initAudio(w)
      w2 == IF w1.thrown THEN w1 ELSE createBeep(w1)
  IN  IF w2.thrown THEN [w2 EXCEPT !.thrown = w.thrown]
      ELSE [w2 EXCEPT !.played = @ \cup {soundName}]

\* preloadSounds
preloadSounds(w) == initAudio(w)

\* ------------------------------------------------------------------ storage
\* "Keep only the last 100 results"
StoreLimit == 100

\* new Date(t).toISOString(): a string that tells the time t
ToISOString(t) == [iso |-> t]

\* { ...result, id: Date.now(), timestamp: new Date().toISOString() } at the
\* time now
NewResult(result, now) ==
  [f \in DOMAIN result \cup {"id", "timestamp"} |->
     IF f = "id" THEN now
     ELSE IF f = "timestamp" THEN ToISOString(now)
     ELSE result[f]]

\* updatedResults cut at its end instead of its beginning
UpdatedResults_KeepsOldest(existingResults, newResult) ==
  LET updatedResults == Append(existingResults, newResult)
  IN  IF Len(updatedResults) > StoreLimit
      THEN SubSeq(updatedResults, 1, StoreLimit)
      ELSE updatedResults

\* updatedResults after the splice
UpdatedResults(existingResults, newResult) ==
  LET updatedResults == Append(existingResults, newResult)
  IN  IF Len(updatedResults) > StoreLimit
      THEN SubSeq(updatedResults, Len(updatedResults) - StoreLimit + 1,
                  Len(updatedResults))
      ELSE updatedResults

\* what JSON.stringify and JSON.parse make of a number: null unless finite
JSONNumber(v) ==
  IF v.kind = "finite" THEN v ELSE [kind |-> "null", value |-> 0]

\* what they make of a result: netWPM is the field that holds a number of
\* any kind, the others hold integers and strings, which come back as they
\* went
JSONResult(r) ==
  [f \in DOMAIN r |-> IF f = "netWPM" THEN JSONNumber(r[f]) ELSE r[f]]

\* JSON.parse(localStorage.getItem(...)) after
\* localStorage.setItem(..., JSON.stringify(results))
JSONResults(results) == [i \in 1..Len(results) |-> JSONResult(results[i])]

\* saveTestResult called at the time now with existingResults stored: the
\* list it leaves in the store and what it returns, null if setItem throws
saveTestResultAt(existingResults, result, now, throws) ==
  LET newResult == NewResult(result, now)
      updatedResults == UpdatedResults(existingResults, newResult)
  IN  IF throws THEN [results |-> existingResults, returned |-> NoResult]
      ELSE [results |-> JSONResults(updatedResults), returned |-> newResult]

\* clearTestResults: removeItem leaves no list, which reads as the empty one
clearTestResults(existingResults, throws) ==
  IF throws THEN [results |-> existingResults, returned |-> FALSE]
  ELSE [results |-> <<>>, returned |-> TRUE]

\* saveTestResult within a session: the world it leaves and what it returns,
\* which is null when the write threw.  The id and the timestamp are left
\* out: the session model has no clock to take them from and reads neither.
saveTestResult(w, result) ==
  IF w.faults.storage THEN [w |-> w, savedResult |-> NoResult]
  ELSE [w |-> [w EXCEPT !.saved = UpdatedResults(@, result)],
        savedResult |-> result]

\* ------------------------------------------------------------ handleTestComplete
\* the values the useCallback closure of handleTestComplete captured in a
\* render
CompleteClosure(st) ==
  [testText |-> st.testText, typedText |-> st.typedText,
   timeElapsed |-> st.timeElapsed, timeLimit |-> st.timeLimit,
   textMode |-> st.textMode, isComplete |-> st.isComplete,
   session |-> st.session]

\* the result object built by handleTestComplete; wpm and netWPM are kept
\* as the calls that compute them, their time counted in interval periods
BuildResult(c) ==
  LET finalTimeElapsed ==
        IF c.timeElapsed # 0 THEN c.timeElapsed
        ELSE c.timeLimit * TicksPerSecond
      analysis == analyzeTypedText(c.testText, c.typedText)
  IN  [kind |-> "result", session |-> c.session,
       typedText |-> c.typedText,
       totalCharacters |-> Len(c.typedText),
       mistakeDetails |-> analysis.mistakes,
       wpm |-> [fn |-> "calculateWPM",
                charactersTyped |-> analysis.correctCharacters,
                timeElapsed |-> finalTimeElapsed],
       netWPM |-> [fn |-> "calculateNetWPM",
                   mistakes |-> Len(analysis.mistakes),
                   timeElapsed |-> finalTimeElapsed],
       timeElapsed |-> finalTimeElapsed, timeLimit |-> c.timeLimit]

\* a setState of TypingTest reaches the state only while it is mounted
SetState(w, st) == IF w.mounted THEN [w EXCEPT !.st = st] ELSE w

\* handleTestComplete of closure c, including App.handleTestComplete, which
\* it calls through onTestComplete
handleTestComplete(c, w) ==
  IF c.isComplete THEN w
  ELSE IF Len(w.saved) >= MaxSaved THEN [w EXCEPT !.ok = FALSE]
  ELSE
    LET result == BuildResult(c)
        w0 == playSound(w, "testComplete")
        stored == saveTestResult(w0, result)
        w1 == stored.w
        w2 == SetState(w1, [w1.st EXCEPT !.isActive = FALSE,
                                         !.isComplete = TRUE])
        w3 == ClearInterval(w2, w2.intervalRef)
    IN  [w3 EXCEPT !.testResult = stored.savedResult, !.view = "results"]

\* ------------------------------------------------------------------ effects
\* dependency lists of the effects of TypingTest, as seen by one render
SettingsDeps(s) == s.settings
GenerateDeps(s) == <<s.st.timeLimit, s.st.textMode>>
TimerDeps(s) ==
  <<s.st.isActive, s.st.isPaused, s.st.isComplete, s.st.timeLimit,
    CompleteClosure(s.st)>>
StatsDeps(s) ==
  <<s.st.typedText, s.st.timeElapsed, s.st.testText, s.st.isActive,
    s.st.timeLimit, s.st.isComplete, CompleteClosure(s.st)>>

\* generateNewText of a render with the given time limit and mode
generateNewText(w, tl, mode) ==
  IF w.gen \in generateTextForTime(tl, mode)
  THEN [w EXCEPT !.st.testText = w.gen]
  ELSE [w EXCEPT !.ok = FALSE]

\* "Update local state when settings change"
SettingsEffect(w, s) ==
  [w EXCEPT !.st.timeLimit = s.settings.timeLimit,
            !.st.textMode = s.settings.textMode]

\* "Initialize test and preload sounds"
InitEffect(w, s) ==
  preloadSounds(generateNewText(w, s.st.timeLimit, s.st.textMode))

\* cleanup function of the timer effect
TimerCleanup(w) == ClearInterval(w, w.intervalRef)

\* the interval the timer effect creates in render s
EffectInterval(s) ==
  [kind |-> "effect", session |-> s.st.session,
   timeLimit |-> s.st.timeLimit, complete |-> CompleteClosure(s.st)]

\* "Timer effect"
TimerEffect(w, s) ==
  IF s.st.isActive /\ ~s.st.isPaused /\ ~s.st.isComplete
  THEN SetInterval(w, EffectInterval(s))
  ELSE ClearInterval(w, w.intervalRef)

\* the stats effect without its check of the end conditions
StatsEffect_NoEndCheck(w, s) == w

\* "Update real-time stats": the part that checks the end conditions
StatsEffect(w, s) ==
  IF s.st.isActive /\ s.st.testText # <<>>
  THEN LET endCheck == checkEndConditions(s.st.testText, s.st.typedText,
                         s.st.timeLimit * TicksPerSecond, s.st.timeElapsed)
       IN  IF endCheck.shouldEnd /\ ~s.st.isComplete
           THEN handleTestComplete(CompleteClosure(s.st), w)
           ELSE w
  ELSE w

\* The effects of the render that shows w, the render before having shown
\* prev (first: there is no render before).  React runs the cleanups of the
\* effects whose dependencies changed, then their bodies in source order.
Effects(w, prev, first) ==
  LET s == Snapshot(w)
      settingsCh == first \/ SettingsDeps(s) # SettingsDeps(prev)
      generateCh == first \/ GenerateDeps(s) # GenerateDeps(prev)
      timerCh    == first \/ TimerDeps(s) # TimerDeps(prev)
      statsCh    == first \/ StatsDeps(s) # StatsDeps(prev)
      w0 == IF timerCh /\ ~first THEN TimerCleanup(w) ELSE w
      w1 == IF settingsCh THEN SettingsEffect(w0, s) ELSE w0
      w2 == IF generateCh THEN InitEffect(w1, s) ELSE w1
      w3 == IF timerCh THEN TimerEffect(w2, s) ELSE w2
  IN  IF statsCh THEN StatsEffect(w3, s) ELSE w3

\* the values the variables of TypingTest hold once it has left the tree;
\* they are read by nothing.  The flags isPaused and isComplete keep the
\* values of the state in which the session ended.
DroppedState(st) ==
  [testText |-> <<>>, typedText |-> <<>>, isActive |-> FALSE,
   isPaused |-> st.isPaused /\ st.isComplete, timeElapsed |-> 0,
   isComplete |-> st.isComplete, timeLimit |-> MaxTimeLimit,
   textMode |-> "words", session |-> st.session]

\* TypingTest leaves the tree: the cleanup of the timer effect runs and the
\* state of the component is dropped.  startTimeRef is forgotten once no
\* interval is left that reads it.
Unmount(w) ==
  LET w1 == TimerCleanup(w)
  IN  [w1 EXCEPT !.mounted = FALSE,
                 !.st = DroppedState(w.st),
                 !.sinceStart = IF \E id \in IntervalIds :
                                     w1.intervals[id].kind = "effect"
                                THEN @ ELSE NoTime]

\* An effect threw and no error boundary is there to catch it: React takes
\* the whole tree down, App included.
Crash(w) == [Unmount(w) EXCEPT !.view = "crashed", !.thrown = FALSE]

\* React after a task: render if something changed, run the effects, and
\* again while the effects set state.
RECURSIVE Commit(_, _, _)
Commit(w, prev, first) ==
  IF ~w.mounted \/ ~w.ok THEN w
  ELSE IF w.thrown THEN Crash(w)
  ELSE IF w.view # "test" THEN Unmount(w)
  ELSE IF ~first /\ Snapshot(w) = prev THEN w
  ELSE Commit(Effects(w, prev, first), Snapshot(w), FALSE)

\* the task ran on world w0 and left w
Rendered(w0, w) == Commit(w, Snapshot(w0), FALSE)

\* ----------------------------------------------------------------- handlers
\* interval periods of the countdown delay (800 ms in the source, rounded)
CountdownTicks == 1

\* startTest without the isActive test
startTest_NoGuard(w) ==
  IF Len(w.pending) >= MaxPending THEN [w EXCEPT !.ok = FALSE]
  ELSE [w EXCEPT !.pending = Append(@,
          [wait |-> CountdownTicks, timeLimit |-> w.st.timeLimit,
           complete |-> CompleteClosure(w.st)])]

\* startTest, called in the render that shows w
startTest(w) ==
  IF w.st.isActive THEN w
  ELSE IF Len(w.pending) >= MaxPending THEN [w EXCEPT !.ok = FALSE]
  ELSE [playSound(w, "countdown") EXCEPT !.pending = Append(@,
          [wait |-> CountdownTicks, timeLimit |-> w.st.timeLimit,
           complete |-> CompleteClosure(w.st)])]

\* the interval the timeout callback of startTest creates in session sess,
\* t being what the callback captured
StartInterval(t, sess) ==
  [kind |-> "start", session |-> sess,
   timeLimit |-> t.timeLimit, complete |-> t.complete]

\* the setTimeout callback of startTest, t being what it captured
CountdownCallback(w, t) ==
  LET w1 == SetState(w, [w.st EXCEPT !.isActive = TRUE, !.timeElapsed = 0,
                                     !.typedText = <<>>,
                                     !.isComplete = FALSE])
      w2 == [w1 EXCEPT !.sinceStart = 0]
  IN  SetInterval(w2, StartInterval(t, w.st.session))

\* Math.floor((now - startTimeRef.current) / 1000), in interval periods
ElapsedSeconds(since) == (since \div TicksPerSecond) * TicksPerSecond

\* callback of the interval created by the timer effect
EffectTick(w, iv) ==
  LET elapsed == ElapsedSeconds(w.sinceStart)
      w1 == SetState(w, [w.st EXCEPT !.timeElapsed = elapsed])
  IN  IF elapsed >= iv.timeLimit * TicksPerSecond
      THEN handleTestComplete(iv.complete, w1)
      ELSE w1

\* callback of the interval created by startTest: the updater passed to
\* setTimeElapsed runs only for a mounted component
StartTick(w, iv) ==
  IF ~w.mounted THEN w
  ELSE LET newTime == w.st.timeElapsed + 1
       IN  IF newTime >= iv.timeLimit * TicksPerSecond
           THEN LET w1 == ClearInterval(w, w.intervalRef)
                    w2 == handleTestComplete(iv.complete, w1)
                IN  [w2 EXCEPT !.st.timeElapsed =
                                  iv.timeLimit * TicksPerSecond]
           ELSE [w EXCEPT !.st.timeElapsed = newTime]

\* togglePause
togglePause(w) ==
  IF w.st.isActive
  THEN LET w1 == [w EXCEPT !.st.isPaused = ~w.st.isPaused]
       IN  IF w.st.isPaused
           THEN [w1 EXCEPT !.sinceStart = w.st.timeElapsed]
           ELSE w1
  ELSE w

\* restartTest without setTypedText('')
restartTest_KeepsTyped(w) ==
  LET w1 == [w EXCEPT !.st.isActive = FALSE, !.st.isPaused = FALSE,
                      !.st.isComplete = FALSE, !.st.timeElapsed = 0,
                      !.st.session = w.st.session + 1]
  IN  generateNewText(w1, w.st.timeLimit, w.st.textMode)

\* restartTest
restartTest(w) ==
  LET w1 == [w EXCEPT !.st.isActive = FALSE, !.st.isPaused = FALSE,
                      !.st.isComplete = FALSE, !.st.timeElapsed = 0,
                      !.st.typedText = <<>>,
                      !.st.session = w.st.session + 1]
  IN  generateNewText(w1, w.st.timeLimit, w.st.textMode)

\* handleInputChange without the isPaused test of its guard
handleInputChange_IgnoresPause(w, value) ==
  IF ~w.st.isActive \/ w.st.isComplete THEN w
  ELSE IF Len(value) <= Len(w.st.testText)
       THEN [w EXCEPT !.st.typedText = value]
       ELSE w

\* handleInputChange without the comparison with the length of the test text
handleInputChange_NoClamp(w, value) ==
  IF ~w.st.isActive \/ w.st.isPaused \/ w.st.isComplete THEN w
  ELSE [w EXCEPT !.st.typedText = value]

\* the sound of a key: of none when a character was deleted
KeySound(w, value) ==
  IF Len(value) > Len(w.st.typedText)
  THEN IF CharAt(value, Len(value) - 1) = CharAt(w.st.testText, Len(value) - 1)
       THEN playSound(w, "keyPress")
       ELSE playSound(w, "keyError")
  ELSE w

\* handleInputChange with e.target.value = value
handleInputChange(w, value) ==
  IF ~w.st.isActive \/ w.st.isPaused \/ w.st.isComplete THEN w
  ELSE LET w1 == KeySound(w, value)
       IN  IF Len(value) <= Len(w1.st.testText)
           THEN [w1 EXCEPT !.st.typedText = value]
           ELSE w1

\* values the input element can report after one key: a character appended
\* or the last character deleted
InputValues(typed) ==
  {Append(typed, c) : c \in Alphabet}
    \cup (IF typed = <<>> THEN {} ELSE {SubSeq(typed, 1, Len(typed) - 1)})

\* App.handleSettingsChange
handleSettingsChange(w, newSettings) ==
  IF w.settings # newSettings THEN [w EXCEPT !.settings = newSettings] ELSE w

\* App renders TypingTest for the first time
Mount(w) ==
  LET w1 == [w EXCEPT !.view = "test", !.mounted = TRUE,
                      !.st = InitialState(w.settings, w.st.session + 1)]
  IN  Commit(w1, Snapshot(w1), TRUE)

\* -------------------------------------------------------------------- steps
AllSettings == [timeLimit : TimeLimitOptions, textMode : TextModes]

\* resumeMark after a handler: set by pause, started by resume, used up by
\* the first tick after the resume, dropped when the session is reset
NextMark(w, ev) ==
  IF w.view # "test" \/ ev \in {"restart", "countdown"} THEN NoMark
  ELSE IF ev = "pause" /\ w.st.isPaused THEN [e |-> timeElapsed, dt |-> NoTime]
  ELSE IF ev = "resume" /\ resumeMark # NoMark THEN [resumeMark EXCEPT !.dt = 0]
  ELSE IF ev = "tick" /\ resumeMark.dt >= 0 THEN NoMark
  ELSE resumeMark

\* the variables take the values of world w
Apply(w, ev) ==
  /\ w.ok
  /\ resumeMark' = NextMark(w, ev)
  /\ UNCHANGED <<callVars, storeVars>>
  /\ currentView' = w.view
  /\ settings' = w.settings
  /\ testResult' = w.testResult
  /\ testText' = w.st.testText
  /\ typedText' = w.st.typedText
  /\ isActive' = w.st.isActive
  /\ isPaused' = w.st.isPaused
  /\ timeElapsed' = w.st.timeElapsed
  /\ isComplete' = w.st.isComplete
  /\ timeLimit' = w.st.timeLimit
  /\ textMode' = w.st.textMode
  /\ session' = w.st.session
  /\ intervalRef' = w.intervalRef
  /\ sinceStart' = w.sinceStart
  /\ intervals' = w.intervals
  /\ pending' = w.pending
  /\ saved' = w.saved
  /\ audioContext' = w.audioContext
  /\ played' = w.played
  /\ faults' = w.faults
  /\ lastEvent' = ev

\* TypingTest is in the tree and its first effects have run
Mounted == currentView = "test" /\ lastEvent # "render"
NoGen == <<>>

\* App and TypingTest mounted with one of the settings stgs, the generator
\* returning one of the texts txts
InitFrom(stgs, txts) ==
  /\ \E stg \in stgs, txt \in txts :
       LET w0 == [ok |-> TRUE, gen |-> txt, mounted |-> FALSE,
                  view |-> "test", settings |-> stg, testResult |-> NoResult,
                  thrown |-> FALSE, faults |-> NoFaults,
                  audioContext |-> FALSE, played |-> {},
                  st |-> InitialState(stg, 0),
                  intervalRef |-> NULL, sinceStart |-> NoTime,
                  intervals |-> [id \in IntervalIds |-> NoTimer],
                  pending |-> <<>>, saved |-> <<>>]
           w == Mount(w0)
       IN  /\ w.ok
           /\ currentView = w.view /\ settings = w.settings
           /\ testResult = w.testResult
           /\ testText = w.st.testText /\ typedText = w.st.typedText
           /\ isActive = w.st.isActive /\ isPaused = w.st.isPaused
           /\ timeElapsed = w.st.timeElapsed
           /\ isComplete = w.st.isComplete
           /\ timeLimit = w.st.timeLimit /\ textMode = w.st.textMode
           /\ session = w.st.session
           /\ intervalRef = w.intervalRef /\ sinceStart = w.sinceStart
           /\ intervals = w.intervals /\ pending = w.pending
           /\ saved = w.saved
           /\ audioContext = w.audioContext /\ faults = w.faults
           /\ played = w.played
  /\ lastEvent = "mount"
  /\ resumeMark = NoMark
  /\ call = NoCall
  /\ ret = NoCall
  /\ history = <<>>
  /\ writes = 0

Init == InitFrom(AllSettings, AllTexts)

\* the Start button or the space key
StartTest ==
  /\ Mounted
  /\ LET w == World(NoGen) IN Apply(Rendered(w, startTest(w)), "start")

\* the countdown timeout created first fires
CountdownTimeout ==
  /\ pending # <<>>
  /\ Head(pending).wait = 0
  /\ LET w == World(NoGen)
         w1 == [w EXCEPT !.pending = Tail(@)]
     IN  Apply(Rendered(w, CountdownCallback(w1, Head(pending))),
               "countdown")

\* a live interval fires
Tick(id) ==
  /\ intervals[id] # NoTimer
  /\ LET w == World(NoGen)
         iv == intervals[id]
     IN  IF iv.kind = "effect"
         THEN Apply(Rendered(w, EffectTick(w, iv)), "tick")
         ELSE Apply(Rendered(w, StartTick(w, iv)), "tick")

\* the Pause / Resume button
TogglePause ==
  /\ Mounted
  /\ LET w == World(NoGen)
     IN  Apply(Rendered(w, togglePause(w)),
               IF isActive /\ isPaused THEN "resume" ELSE "pause")

\* the Restart / New Test button of TypingTest
RestartTest ==
  /\ Mounted
  /\ session < MaxSessions
  /\ \E txt \in AllTexts :
       LET w == World(txt) IN Apply(Rendered(w, restartTest(w)), "restart")

\* the input element reports value
HandleInputValue(value) ==
  /\ Mounted
  /\ LET w == World(NoGen)
     IN  Apply(Rendered(w, handleInputChange(w, value)),
               IF Len(value) > Len(testText) THEN "inputTooLong"
               ELSE "input")

\* a key typed into the input element
HandleInputChange == \E value \in InputValues(typedText) : HandleInputValue(value)

\* a time limit badge of TypingTest: !isActive && setTimeLimit(value)
SelectTimeLimit ==
  /\ Mounted
  /\ ~isActive
  /\ \E v \in TimeLimitOptions, txt \in AllTexts :
       LET w == World(txt)
       IN  Apply(Rendered(w, [w EXCEPT !.st.timeLimit = v]), "timeLimit")

\* a text mode badge of TypingTest: !isActive && setTextMode(value)
SelectTextMode ==
  /\ Mounted
  /\ ~isActive
  /\ \E m \in TextModes, txt \in AllTexts :
       LET w == World(txt)
       IN  Apply(Rendered(w, [w EXCEPT !.st.textMode = m]), "textMode")

\* the Settings dialog, opened from the test view, reports changed settings
\* to App
SettingsChangeIn(stgs, txts) ==
  \E stg \in stgs, txt \in txts :
     /\ Mounted
     /\ stg # settings
     /\ LET w == World(txt)
        IN  Apply(Rendered(w, handleSettingsChange(w, stg)), "settings")

SettingsChange == SettingsChangeIn(AllSettings, AllTexts)

\* App.handleViewDashboard
ViewDashboard ==
  /\ currentView # "dashboard"
  /\ LET w == World(NoGen)
     IN  Apply(Rendered(w, [w EXCEPT !.view = "dashboard"]), "dashboard")

\* 100 ms pass, the clock of the model running up to max
AdvanceTo(max) ==
  /\ sinceStart < max
  /\ sinceStart' = IF sinceStart = NoTime THEN NoTime ELSE sinceStart + 1
  /\ pending' = [i \in 1..Len(pending) |->
                   [pending[i] EXCEPT !.wait = Max(0, @ - 1)]]
  /\ resumeMark' = IF resumeMark.dt >= 0
                   THEN [resumeMark EXCEPT !.dt = @ + 1] ELSE resumeMark
  /\ UNCHANGED <<currentView, settings, testResult, testText,
                 typedText, isActive, isPaused, timeElapsed, isComplete,
                 timeLimit, textMode, session, intervalRef,
                 intervals, saved, audioContext, played, faults, lastEvent,
                 callVars, storeVars>>

Advance == AdvanceTo(MaxClock)

Next ==
  \/ StartTest
  \/ CountdownTimeout
  \/ \E id \in IntervalIds : Tick(id)
  \/ TogglePause
  \/ RestartTest
  \/ HandleInputChange
  \/ SelectTimeLimit
  \/ SelectTextMode
  \/ SettingsChange
  \/ ViewDashboard
  \/ Advance

Spec == Init /\ [][Next]_vars

\* ------------------------------------------ one session of a longer test
\* A test of one second more than MaxTimeLimit, so that the clock shows a
\* whole second before the time is up, with the settings left alone and
\* Start pressed while no countdown is pending.
LongTimeLimit == MaxTimeLimit + 1
LongClock == LongTimeLimit * TicksPerSecond
LongSettings == [timeLimit : {LongTimeLimit}, textMode : TextModes]
LongTexts == UNION {generateTextForTime(LongTimeLimit, m) : m \in TextModes}

InitLong == InitFrom(LongSettings, LongTexts)

StartOnce == pending = <<>> /\ StartTest

AdvanceLong == AdvanceTo(LongClock)

NextLong ==
  \/ StartOnce
  \/ CountdownTimeout
  \/ \E id \in IntervalIds : Tick(id)
  \/ TogglePause
  \/ HandleInputChange
  \/ AdvanceLong

SpecLong == InitLong /\ [][NextLong]_vars

\* ------------------------------------------- ticks that come late
\* A session with a short and a long time limit to choose from in the
\* settings dialog, and a clock that runs on after the short limit, so that
\* a tick may find more time gone than the limit allows.
LateTimeLimit == MaxTimeLimit + 2
LateClock == LateTimeLimit * TicksPerSecond
LateSettings == [timeLimit : {MaxTimeLimit, LateTimeLimit}, textMode : {"words"}]
LateTexts ==
  generateTextForTime(MaxTimeLimit, "words")
    \cup generateTextForTime(LateTimeLimit, "words")

InitLate == InitFrom(LateSettings, LateTexts)

SettingsChangeLate == SettingsChangeIn(LateSettings, LateTexts)

AdvanceLate == AdvanceTo(LateClock)

NextLate ==
  \/ StartOnce
  \/ CountdownTimeout
  \/ \E id \in IntervalIds : Tick(id)
  \/ TogglePause
  \/ HandleInputChange
  \/ SettingsChangeLate
  \/ AdvanceLate

SpecLate == InitLate /\ [][NextLate]_vars

\* ------------------------------------------- a session left to run
\* A session that is neither restarted nor left for the dashboard, with its
\* settings left alone.  The browser fires every timeout that is due and
\* every interval that stays live, and time passes.
\* the clock runs until the longest time limit has passed
LiveClock == MaxTimeLimit * TicksPerSecond + 1

AdvanceLive == AdvanceTo(LiveClock)

NextLive ==
  \/ StartTest
  \/ CountdownTimeout
  \/ \E id \in IntervalIds : Tick(id)
  \/ TogglePause
  \/ HandleInputChange
  \/ AdvanceLive

\* the callback of interval id can run and leaves something changed
TickEnabled(id) ==
  /\ intervals[id] # NoTimer
  /\ LET w == World(NoGen)
         iv == intervals[id]
         w1 == IF iv.kind = "effect"
               THEN Rendered(w, EffectTick(w, iv))
               ELSE Rendered(w, StartTick(w, iv))
     IN  /\ w1.ok
         /\ \/ w1 # w
            \/ played # {}
            \/ lastEvent # "tick"
            \/ NextMark(w1, "tick") # resumeMark

\* the timeout created first is due
CountdownEnabled ==
  /\ pending # <<>>
  /\ Head(pending).wait = 0
  /\ LET w == World(NoGen)
         w1 == [w EXCEPT !.pending = Tail(@)]
     IN  Rendered(w, CountdownCallback(w1, Head(pending))).ok

\* weak fairness of the clock, the timeouts and the intervals, the last two
\* with their enabling conditions written out
Fairness ==
  /\ WF_vars(AdvanceLive)
  /\ []<>(~CountdownEnabled) \/ []<><<CountdownTimeout>>_vars
  /\ \A id \in IntervalIds :
       []<>(~TickEnabled(id)) \/ []<><<Tick(id)>>_vars

SpecLive == Init /\ [][NextLive]_vars /\ Fairness

\* ------------------------------------------- collaborators that throw
\* App and TypingTest rendered for the first time, the effects of the
\* render not yet run; the collaborators fail in one of the ways AllFaults
InitFault ==
  /\ faults \in AllFaults
  /\ settings \in AllSettings
  /\ currentView = "test" /\ testResult = NoResult
  /\ LET st == InitialState(settings, 1)
     IN  /\ testText = st.testText /\ typedText = st.typedText
         /\ isActive = st.isActive /\ isPaused = st.isPaused
         /\ timeElapsed = st.timeElapsed /\ isComplete = st.isComplete
         /\ timeLimit = st.timeLimit /\ textMode = st.textMode
         /\ session = st.session
  /\ intervalRef = NULL /\ sinceStart = NoTime
  /\ intervals = [id \in IntervalIds |-> NoTimer]
  /\ pending = <<>> /\ saved = <<>>
  /\ audioContext = FALSE /\ played = {}
  /\ lastEvent = "render"
  /\ resumeMark = NoMark
  /\ call = NoCall
  /\ ret = NoCall
  /\ history = <<>>
  /\ writes = 0

\* the effects of the first render run
FirstEffects ==
  /\ lastEvent = "render"
  /\ \E txt \in AllTexts :
       LET w == World(txt) IN Apply(Commit(w, Snapshot(w), TRUE), "mount")

NextFault ==
  \/ FirstEffects
  \/ StartOnce
  \/ CountdownTimeout
  \/ \E id \in IntervalIds : Tick(id)
  \/ TogglePause
  \/ HandleInputChange
  \/ Advance

SpecFault == InitFault /\ [][NextFault]_vars

\* ------------------------------------------- functions called on their own
\* arguments of a call: strings, and times in interval periods
CallStrings == SeqsUpTo(CallAlphabet, MaxStrLen)
CallTimes == 0..MaxClock

\* the component just mounted with the default settings; nothing of it moves
InitCall ==
  /\ Init
  /\ settings = [timeLimit |-> 1, textMode |-> "words"]

\* checkEndConditions(originalText, typedText, timeLimit, timeElapsed)
CallCheckEndConditions ==
  /\ call = NoCall
  /\ \E o \in CallStrings, t \in CallStrings,
        tl \in CallTimes, te \in CallTimes :
       /\ call' = [fn |-> "checkEndConditions", originalText |-> o,
                   typedText |-> t, timeLimit |-> tl, timeElapsed |-> te]
       /\ ret' = checkEndConditions(o, t, tl, te)
  /\ UNCHANGED <<sessionVars, storeVars>>

\* texts passed to analyzeTypedText
AnalyzeStrings == SeqsUpTo(AnalyzeAlphabet, MaxStrLen)

\* analyzeTypedText(originalText, typedText)
CallAnalyzeTypedText ==
  /\ call = NoCall
  /\ \E o \in AnalyzeStrings, t \in AnalyzeStrings :
       /\ call' = [fn |-> "analyzeTypedText", originalText |-> o,
                   typedText |-> t]
       /\ ret' = analyzeTypedText(o, t)
  /\ UNCHANGED <<sessionVars, storeVars>>

\* getCharacterStates(originalText, typedText, currentPosition)
CallGetCharacterStates ==
  /\ call = NoCall
  /\ \E o \in AnalyzeStrings, t \in AnalyzeStrings, p \in 0..MaxStrLen :
       /\ call' = [fn |-> "getCharacterStates", originalText |-> o,
                   typedText |-> t, currentPosition |-> p]
       /\ ret' = getCharacterStates(o, t, p)
  /\ UNCHANGED <<sessionVars, storeVars>>

NextCall ==
  \/ CallCheckEndConditions
  \/ CallAnalyzeTypedText
  \/ CallGetCharacterStates

SpecCall == InitCall /\ [][NextCall]_vars

\* ------------------------------------------- the statistics called alone
\* largest character count passed to calculateWPM and calculateAccuracy
MaxCallChars == 7
\* largest time in seconds passed to calculateWPM
MaxCallSeconds == 24
\* largest total character count passed to calculateAccuracy
MaxCallTotal == 12

\* calculateWPM(charactersTyped, timeElapsed)
CallCalculateWPM ==
  /\ call = NoCall
  /\ \E c \in 0..MaxCallChars, t \in 0..MaxCallSeconds :
       /\ call' = [fn |-> "calculateWPM", charactersTyped |-> c,
                   timeElapsed |-> t]
       /\ ret' = calculateWPM(c, t)
  /\ UNCHANGED <<sessionVars, storeVars>>

\* calculateAccuracy(correctCharacters, totalCharacters)
CallCalculateAccuracy ==
  /\ call = NoCall
  /\ \E c \in 0..MaxCallChars, n \in 0..MaxCallTotal :
       /\ call' = [fn |-> "calculateAccuracy", correctCharacters |-> c,
                   totalCharacters |-> n]
       /\ ret' = calculateAccuracy(c, n)
  /\ UNCHANGED <<sessionVars, storeVars>>

\* largest gross WPM passed to calculateNetWPM
MaxCallGross == 8
\* largest number of mistakes passed to calculateNetWPM
MaxCallMistakes == 11
\* largest time in seconds passed to calculateNetWPM
MaxNetSeconds == 88

\* calculateNetWPM(grossWPM, mistakes, timeElapsed)
CallCalculateNetWPM ==
  /\ call = NoCall
  /\ \E g \in 0..MaxCallGross, m \in 0..MaxCallMistakes,
        t \in 0..MaxNetSeconds :
       /\ call' = [fn |-> "calculateNetWPM", grossWPM |-> g,
                   mistakes |-> m, timeElapsed |-> t]
       /\ ret' = calculateNetWPM(g, m, t)
  /\ UNCHANGED <<sessionVars, storeVars>>

\* longest short text passed to calculateRealTimeStats
MaxStatsLen == 2
\* a text of several words
TheCatSat == <<"t", "h", "e", SP, "c", "a", "t", SP, "s", "a", "t">>
\* texts passed to calculateRealTimeStats
StatsStrings == SeqsUpTo({"a", "b"}, MaxStatsLen) \cup {TheCatSat}

\* calculateRealTimeStats(originalText, typedText, timeElapsed)
CallCalculateRealTimeStats ==
  /\ call = NoCall
  /\ \E o \in StatsStrings, t \in StatsStrings, e \in 0..MaxCallSeconds :
       /\ call' = [fn |-> "calculateRealTimeStats", originalText |-> o,
                   typedText |-> t, timeElapsed |-> e]
       /\ ret' = calculateRealTimeStats(o, t, e)
  /\ UNCHANGED <<sessionVars, storeVars>>

\* the statistics handleTestComplete computes for a session that ends:
\* calculateRealTimeStats, and calculateNetWPM of its wpm and mistakes
CallCompletionStats ==
  /\ call = NoCall
  /\ \E o \in StatsStrings, t \in StatsStrings, e \in 0..MaxCallSeconds :
       LET finalStats == calculateRealTimeStats(o, t, e)
       IN  /\ call' = [fn |-> "completionStats", testText |-> o,
                       typedText |-> t, finalTimeElapsed |-> e]
           /\ ret' = [finalStats |-> finalStats,
                      netWPM |-> calculateNetWPM(finalStats.wpm,
                                   finalStats.mistakes, e)]
  /\ UNCHANGED <<sessionVars, storeVars>>

NextNum ==
  \/ CallCalculateWPM
  \/ CallCalculateAccuracy
  \/ CallCalculateNetWPM
  \/ CallCalculateRealTimeStats
  \/ CallCompletionStats

SpecNum == InitCall /\ [][NextNum]_vars

\* --------------------------------------------- the generator called alone
\* largest length passed to generateText: words in the mode 'words',
\* characters in the other modes
MaxGenLength == 6
\* length of the long sentence of the word list
LongSentenceLen == 59
\* wordList.js commonWords for the calls: a short and a longer word
GenWords == << <<"a">>, <<"b", "c">> >>
\* wordList.js commonWords for the calls in the mode 'mixed', whose runs of
\* 5 to 14 words are drawn from one word
MixedWords == << <<"a", "b">> >>
\* the word list a call in a mode draws from
WordsFor(mode) == IF mode = "mixed" THEN MixedWords ELSE GenWords
\* a sentence longer than the buffer of generateRandomSentences
LongSentence == [i \in 1..LongSentenceLen |-> IF i % 4 = 0 THEN SP ELSE "e"]
\* wordList.js sentences for the calls
GenSentences == << LongSentence, <<"a", SP, "b">>, <<"c", "d">> >>
GenModes == {"words", "sentences", "mixed"}

\* generateText(mode, length), for every outcome of the random draws
CallGenerateText ==
  /\ call = NoCall
  /\ \E mode \in GenModes, length \in 0..MaxGenLength :
       \E text \in generateText(WordsFor(mode), GenSentences, mode, length) :
         /\ call' = [fn |-> "generateText", mode |-> mode, length |-> length]
         /\ ret' = text
  /\ UNCHANGED <<sessionVars, storeVars>>

NextGen == CallGenerateText

SpecGen == InitCall /\ [][NextGen]_vars

\* ------------------------------------------- the store called alone
\* number of results written within one behaviour
MaxWrites == 102

\* the result of the n-th completion, built at the time n
ResultAt(n) ==
  [kind |-> "result", wpm |-> n % 3, netWPM |-> IntResult(n % 2),
   timestamp |-> ToISOString(n)]

sessionVarsButSaved ==
  <<currentView, settings, testResult, testText, typedText, isActive,
    isPaused, timeElapsed, isComplete, timeLimit, textMode, session,
    intervalRef, sinceStart, intervals, pending, audioContext, played,
    faults, lastEvent, resumeMark>>

\* saveTestResult is called; the count of the writes stands for the clock,
\* a later write reading a later time
CallSaveTestResult ==
  /\ writes < MaxWrites
  /\ \E throws \in BOOLEAN :
       LET result == ResultAt(writes)
           now == writes + 1
           r == saveTestResultAt(saved, result, now, throws)
       IN  /\ call' = [fn |-> "saveTestResult", result |-> result]
           /\ ret' = r.returned
           /\ saved' = r.results
           /\ history' = IF throws THEN history ELSE Append(history, r.returned)
           /\ writes' = IF throws THEN writes ELSE now
  /\ UNCHANGED sessionVarsButSaved

\* clearTestResults is called
CallClearTestResults ==
  /\ \E throws \in BOOLEAN :
       LET r == clearTestResults(saved, throws)
       IN  /\ call' = [fn |-> "clearTestResults"]
           /\ ret' = [kind |-> "cleared", done |-> r.returned]
           /\ saved' = r.results
           /\ history' = IF throws THEN history ELSE <<>>
  /\ UNCHANGED writes
  /\ UNCHANGED sessionVarsButSaved

NextStore == CallSaveTestResult \/ CallClearTestResults

SpecStore == InitCall /\ [][NextStore]_vars

\* =================================================================== claims
RunningNow == Mounted /\ isActive /\ ~isPaused /\ ~isComplete
TickStep == \E id \in IntervalIds : Tick(id)
SavedFor(sess) == {i \in 1..Len(saved) : saved[i].session = sess}

\* C1: for each session at most one result is saved and onTestComplete is
\* invoked at most once, whichever triggers reach the time limit together.
C1_OneCompletionPerSession ==
  \A sess \in 1..MaxSessions : Cardinality(SavedFor(sess)) <= 1

\* C2: once the session is Complete no later trigger saves a further result
\* or changes the saved one.
C2_CompleteIsFinal == [][isComplete => saved' = saved]_vars

\* C3: a tick of any interval changes timeElapsed only while the session is
\* Running.
C3_TicksOnlyWhileRunning ==
  [][(TickStep /\ ~RunningNow) => timeElapsed' = timeElapsed]_vars

\* C4: the tick of an interval created in an earlier session, or of one that
\* outlives the completion or the unmount of the test view, neither changes
\* timeElapsed nor saves a result.
C4_NoStaleTick ==
  [][\A id \in IntervalIds :
       (/\ intervals[id] # NoTimer
        /\ \/ intervals[id].session # session
           \/ isComplete
           \/ ~Mounted
        /\ Tick(id))
       => (timeElapsed' = timeElapsed /\ saved' = saved)]_vars

\* C5: the first tick after a resume shows the elapsed time of the pause
\* plus the time since the resume: nothing of the paused time is added and
\* nothing shown before is lost.
C5_ResumeIsContinuous ==
  [][(TickStep /\ resumeMark.dt >= 0 /\ currentView' = "test")
       => (/\ timeElapsed' >= resumeMark.e
           /\ timeElapsed' <= resumeMark.e + resumeMark.dt)]_vars

\* C6: an input event leaves typedText as it is unless the session is
\* Running: in Idle, during the countdown delay, while Paused, after Complete.
C6_InputOnlyWhileRunning ==
  [][(HandleInputChange /\ ~RunningNow) => typedText' = typedText]_vars

\* an input event arrived during the countdown delay and was ignored
C6_Witness ==
  /\ lastEvent = "input"
  /\ pending # <<>>
  /\ ~isActive
  /\ typedText = <<>>

\* C7: an input longer than the target text leaves typedText as it was.
C7_TooLongInputRejected ==
  [][(lastEvent' = "inputTooLong") => typedText' = typedText]_vars

\* a character typed at the end of a full buffer was dropped
C7_Witness ==
  /\ lastEvent = "inputTooLong"
  /\ RunningNow
  /\ Len(typedText) = Len(testText)
  /\ typedText # <<>>

\* C8: the typed buffer is never longer than the target text.
C8_TypedWithinTarget == Len(typedText) <= Len(testText)

\* C9: while the session stays active the target text does not change.
C9_TargetFixedWhileActive ==
  [][(isActive /\ isActive') => testText' = testText]_vars

\* the stretches <<i, j>> of s with only whitespace before and after them
\* and none at their own ends: the bounds of s trimmed, said without
\* recursion
TrimBounds(s) ==
  {p \in (1..(Len(s) + 1)) \X (0..Len(s)) :
     /\ p[1] <= p[2] + 1
     /\ \A k \in 1..(p[1] - 1) : IsWhitespace(s[k])
     /\ \A k \in (p[2] + 1)..Len(s) : IsWhitespace(s[k])
     /\ p[1] <= p[2] => (~IsWhitespace(s[p[1]]) /\ ~IsWhitespace(s[p[2]]))}

\* t is s without its leading and trailing whitespace
IsTrimOf(t, s) == \E p \in TrimBounds(s) : t = SubSeq(s, p[1], p[2])

\* the typed text is at least as long as the target and, both trimmed,
\* equals the prefix of the target of its length
TrimmedPrefixTyped(target, typed) ==
  LET prefix == Prefix(target, Len(typed))
  IN  /\ Len(typed) >= Len(target)
      /\ \E p \in TrimBounds(typed), q \in TrimBounds(prefix) :
            SubSeq(typed, p[1], p[2]) = SubSeq(prefix, q[1], q[2])

\* shouldEnd is true exactly when the time is up or the text is typed
ShouldEndIff ==
  ret.shouldEnd <=> (\/ call.timeElapsed >= call.timeLimit
                     \/ TrimmedPrefixTyped(call.originalText, call.typedText))

\* a buffer as long as the target holding a non-whitespace character that
\* differs from the target's character at its place, before the time limit
FullMismatchedBuffer ==
  /\ Len(call.typedText) = Len(call.originalText)
  /\ \E i \in 1..Len(call.typedText) :
        /\ ~IsWhitespace(call.typedText[i])
        /\ call.typedText[i] # call.originalText[i]
  /\ call.timeElapsed < call.timeLimit

\* the target neither starts nor ends with whitespace
TargetTrimmed == IsTrimOf(call.originalText, call.originalText)

\* C10 as stated: shouldEnd is true exactly when the time is up or the
\* trimmed typed text equals the trimmed prefix of the target, and no
\* full-length buffer with a mismatched non-whitespace character ends the
\* session before the time limit.
C10_EndConditions ==
  call.fn = "checkEndConditions" =>
    /\ ShouldEndIff
    /\ FullMismatchedBuffer => ~ret.shouldEnd

\* C10 amended: shouldEnd is true exactly when the time is up or the
\* trimmed typed text equals the trimmed prefix of the target; a full-length
\* buffer with a mismatched non-whitespace character does not end the
\* session before the time limit if the target text neither starts nor ends
\* with whitespace.
C10_EndConditionsTrimmedTarget ==
  call.fn = "checkEndConditions" =>
    /\ ShouldEndIff
    /\ (FullMismatchedBuffer /\ TargetTrimmed) => ~ret.shouldEnd

\* a full-length buffer that starts with whitespace and holds a wrong
\* character, checked against a trimmed target: the session goes on
C10_Witness ==
  /\ call.fn = "checkEndConditions"
  /\ FullMismatchedBuffer
  /\ TargetTrimmed
  /\ IsWhitespace(call.typedText[1])
  /\ ~ret.shouldEnd

\* C11: the reason is 'time' whenever the elapsed time has reached the
\* limit, also when the text is completed at the same moment or the typed
\* text is shorter than the target; it is 'completed' only when the time is
\* not up and the text is completed, and null otherwise.
C11_ReasonTimeFirst ==
  call.fn = "checkEndConditions" =>
    ret.reason =
      IF call.timeElapsed >= call.timeLimit THEN "time"
      ELSE IF TrimmedPrefixTyped(call.originalText, call.typedText)
           THEN "completed"
           ELSE "null"

\* the time is up at the moment the whole text is typed: the reason is time
C11_Witness ==
  /\ call.fn = "checkEndConditions"
  /\ call.timeElapsed = call.timeLimit
  /\ call.timeLimit > 0
  /\ call.originalText # <<>>
  /\ call.typedText = call.originalText
  /\ ret.textCompleted
  /\ ret.reason = "time"

\* typed and target have the same length and differ at the last place only
DifferAtEndOnly(target, typed) ==
  /\ Len(typed) = Len(target)
  /\ Len(typed) >= 1
  /\ SubSeq(typed, 1, Len(typed) - 1) = SubSeq(target, 1, Len(target) - 1)
  /\ typed[Len(typed)] # target[Len(target)]

\* C13: a typed text of the target's length that differs from it
\* only at the very end, where the target or the typed text has whitespace,
\* counts as completed.
C13_TrailingSpaceMismatch ==
  (/\ call.fn = "checkEndConditions"
   /\ DifferAtEndOnly(call.originalText, call.typedText)
   /\ \/ IsWhitespace(call.typedText[Len(call.typedText)])
      \/ IsWhitespace(call.originalText[Len(call.originalText)]))
    => ret.textCompleted

\* C12: an input accepted while the session is Running before the time
\* limit that makes the typed text the whole target text completes the
\* session in the same step, and a result holding that text is saved.
C12_FullTextCompletes ==
  [][\A value \in InputValues(typedText) :
       (/\ HandleInputValue(value)
        /\ RunningNow
        /\ timeElapsed < timeLimit * TicksPerSecond
        /\ value = testText)
       => (/\ isComplete' /\ ~isActive'
           /\ Len(saved') = Len(saved) + 1
           /\ saved'[Len(saved')].typedText = testText
           /\ testResult' = saved'[Len(saved')])]_vars

\* the last character of the target was typed and the result is shown
C12_Witness ==
  /\ lastEvent = "input"
  /\ isComplete
  /\ currentView = "results"
  /\ testResult # NoResult
  /\ Len(testResult.typedText) >= 2
  /\ testResult.typedText \in AllTexts

\* C14 as stated: restart leaves a fresh session - a newly generated target
\* text, an empty typed text, no elapsed time, not paused, not complete -
\* and starts it at once, without a start action.
C14_RestartStarts ==
  [][RestartTest =>
       (/\ testText' \in generateTextForTime(timeLimit, textMode)
        /\ typedText' = <<>> /\ timeElapsed' = 0
        /\ ~isPaused' /\ ~isComplete'
        /\ session' = session + 1
        /\ (isActive' \/ Len(pending') > Len(pending)))]_vars

\* C14 amended: restart, in every state in which the test view is shown,
\* leaves a fresh session - a newly generated target text, an empty typed
\* text, no elapsed time, not paused, not complete - that is Idle: it is
\* not active and restart schedules no countdown.
C14_RestartIsIdle ==
  [][RestartTest =>
       (/\ testText' \in generateTextForTime(timeLimit, textMode)
        /\ typedText' = <<>> /\ timeElapsed' = 0
        /\ ~isPaused' /\ ~isComplete'
        /\ session' = session + 1
        /\ ~isActive' /\ pending' = pending)]_vars

\* the session was restarted during the countdown of the session before
C14_Witness ==
  /\ lastEvent = "restart"
  /\ session = 2
  /\ pending # <<>>
  /\ ~isActive /\ ~isPaused /\ ~isComplete
  /\ typedText = <<>> /\ timeElapsed = 0

\* C15: start invoked while the session is active, Running or Paused,
\* changes nothing: not the typed text, the elapsed time, the target text
\* or the flags, and it schedules no countdown and creates no interval.
C15_StartWhileActiveIsNoOp ==
  [][(StartTest /\ isActive) =>
       UNCHANGED <<typedText, timeElapsed, testText, isActive, isPaused,
                   isComplete, pending, intervals, intervalRef,
                   sinceStart>>]_vars

\* start was invoked while the session was Paused with text typed
C15_Witness ==
  /\ lastEvent = "start"
  /\ isActive /\ isPaused
  /\ typedText # <<>>
\* the state of position i, counted from 0, by direct comparison
PositionState(target, typed, i) ==
  IF i < Len(target) /\ i < Len(typed)
  THEN IF target[i + 1] = typed[i + 1] THEN "correct" ELSE "incorrect"
  ELSE IF i >= Len(typed) THEN "missed" ELSE "extra"

\* C17: analyzeTypedText returns max(len(target), len(typed)) position
\* states; a position inside both texts is correct if the characters are
\* equal and incorrect if not, a position not typed is missed and a typed
\* position beyond the target is extra.
C17_PositionStates ==
  call.fn = "analyzeTypedText" =>
    LET n == Max(Len(call.originalText), Len(call.typedText))
    IN  /\ Len(ret.characterStates) = n
        /\ \A i \in 0..(n - 1) :
              ret.characterStates[i + 1] =
                PositionState(call.originalText, call.typedText, i)

\* a typed text longer than the target: correct, incorrect and extra
C17_Witness ==
  /\ call.fn = "analyzeTypedText"
  /\ Len(call.originalText) = 2
  /\ Len(call.typedText) = 3
  /\ ret.characterStates = <<"correct", "incorrect", "extra">>

\* the positions, counted from 0, at which analyzeTypedText has to record
\* a mistake: typed positions beyond the target or differing from it
MistakePositions(target, typed) ==
  {i \in 0..(Len(typed) - 1) :
     i >= Len(target) \/ typed[i + 1] # target[i + 1]}

\* C18: the mistakes are recorded in increasing order of position, one
\* substitution with the expected and the typed character for each position
\* inside both texts where they differ, one insertion with an empty expected
\* character for each typed position beyond the target, none for positions
\* not typed; target 'abc' typed 'abd' gives the one substitution at
\* position 2, two correct and one incorrect character.
C18_Mistakes ==
  call.fn = "analyzeTypedText" =>
    LET o == call.originalText
        t == call.typedText
        m == ret.mistakes
    IN  /\ {m[k].position : k \in 1..Len(m)} = MistakePositions(o, t)
        /\ \A k \in 1..(Len(m) - 1) : m[k].position < m[k + 1].position
        /\ \A k \in 1..Len(m) :
              LET i == m[k].position
              IN  /\ m[k].typed = t[i + 1]
                  /\ IF i < Len(o)
                     THEN /\ m[k].type = "substitution"
                          /\ m[k].expected = o[i + 1]
                          /\ m[k].expected # m[k].typed
                     ELSE /\ m[k].type = "insertion"
                          /\ m[k].expected = ""
        /\ (o = <<"a", "b", "c">> /\ t = <<"a", "b", "d">>) =>
              /\ m = << [position |-> 2, expected |-> "c", typed |-> "d",
                         type |-> "substitution"] >>
              /\ ret.correctCharacters = 2
              /\ ret.incorrectCharacters = 1

\* a substitution followed by an insertion
C18_Witness ==
  /\ call.fn = "analyzeTypedText"
  /\ call.originalText = <<"a", "b">>
  /\ call.typedText = <<"a", "c", "d">>
  /\ ret.mistakes =
       << [position |-> 1, expected |-> "b", typed |-> "c",
           type |-> "substitution"],
          [position |-> 2, expected |-> "", typed |-> "d",
           type |-> "insertion"] >>
\* round(12 * c / t): the rounding of (c / 5) / (t / 60) in exact arithmetic
ExactWPM(c, t) == (24 * c + t) \div (2 * t)

\* C19: calculateWPM(c, t) is 0 when t is 0 and round((c / 5) / (t / 60))
\* otherwise; so it is 0 for no characters and for no time.
C19_WPM ==
  call.fn = "calculateWPM" =>
    /\ ret = IF call.timeElapsed = 0 THEN 0
             ELSE ExactWPM(call.charactersTyped, call.timeElapsed)
    /\ call.charactersTyped = 0 => ret = 0
    /\ call.timeElapsed = 0 => ret = 0

\* the Number d is a Number nearest to the fraction num / den
NearestNumber(d, num, den) ==
  IF d.m = BigZero THEN num = 0
  ELSE /\ ~BigLess(d.m, Two52)
       /\ BigLess(d.m, Two53)
       /\ d.e < 0
       /\ LET a == BigMulSmall(d.m, den)
              b == BigShiftLeft(BigFromInt(num), -d.e)
              diff == IF BigLess(a, b) THEN BigSub(b, a) ELSE BigSub(a, b)
          IN  ~BigLess(BigFromInt(den), BigDouble(diff))

\* round(1000 * c / n) in exact arithmetic
ExactTenths(c, n) == (2000 * c + n) \div (2 * n)

ResultTimeIs(e) ==
  LET r == saved'[Len(saved')]
      final == IF e = 0 THEN timeLimit * TicksPerSecond ELSE e
  IN  /\ r.timeElapsed = final
      /\ r.wpm.timeElapsed = final
      /\ r.netWPM.timeElapsed = final

\* the elapsed time the callback of interval id arrives at in this step
TickElapsed(id) ==
  IF intervals[id].kind = "effect" THEN ElapsedSeconds(sinceStart)
  ELSE Min(timeElapsed + 1, timeLimit * TicksPerSecond)

\* C16: the result saved at completion carries the elapsed time the session
\* has at that moment, or the time limit when that time is zero, and its WPM
\* and net WPM are computed with the same value.
C16_ResultTime ==
  [][/\ \A id \in IntervalIds :
          (Tick(id) /\ Len(saved') = Len(saved) + 1) =>
            ResultTimeIs(TickElapsed(id))
     /\ (~TickStep /\ Len(saved') = Len(saved) + 1) =>
            ResultTimeIs(timeElapsed)]_vars

\* ------------------------------------------------------------------- C21
\* max(0, round(g - m / (t / 60))) for t > 0 in exact arithmetic, halves
\* rounded up: floor((2gt - 120m + t) / 2t), or 0 if that is negative
ExactNetWPM(g, m, t) == Max(0, (2 * g * t - 120 * m + t) \div (2 * t))

\* C21: for t > 0 calculateNetWPM(g, m, t) is max(0, round(g - m/(t/60))):
\* never negative, never more than g, and g itself when m = 0
C21_NetWPM ==
  (call.fn = "calculateNetWPM" /\ call.timeElapsed > 0) =>
    /\ ret = IntResult(ExactNetWPM(call.grossWPM, call.mistakes,
                                   call.timeElapsed))
    /\ ret.value >= 0
    /\ ret.value <= call.grossWPM
    /\ call.mistakes = 0 => ret.value = call.grossWPM

\* ------------------------------------------------------------------- C22
\* a Number of the model is finite by what it is: a mantissa and an exponent
IsFiniteNumber(x) == DOMAIN x = {"m", "e"} /\ x.e \in Int

\* C22: whatever the zero or positive arguments, elapsedSeconds = 0 and
\* totalCharacters = 0 included, every numeric field calculateWPM,
\* calculateAccuracy, calculateNetWPM and calculateRealTimeStats return is
\* a finite number
C22_AlwaysFinite ==
  /\ call.fn = "calculateWPM" => ret \in Nat
  /\ call.fn = "calculateAccuracy" => IsFiniteNumber(ret)
  /\ call.fn = "calculateNetWPM" => ret.kind = "finite"
  /\ call.fn = "calculateRealTimeStats" =>
       /\ ret.wpm \in Nat
       /\ IsFiniteNumber(ret.accuracy)
       /\ ret.correctCharacters \in Nat
       /\ ret.incorrectCharacters \in Nat
       /\ ret.totalCharacters \in Nat
       /\ ret.mistakes \in Nat
       /\ ret.progress.kind = "finite"

\* ------------------------------------------------------------------- C23
\* C23: when the typed text is the target, which is not empty, and time has
\* passed, every character is correct, none is incorrect, there is no
\* mistake, the accuracy is 100 and the net WPM is the WPM
C23_ExactMatch ==
  (/\ call.fn = "completionStats"
   /\ call.testText # <<>>
   /\ call.typedText = call.testText
   /\ call.finalTimeElapsed > 0) =>
    /\ ret.finalStats.correctCharacters = Len(call.testText)
    /\ ret.finalStats.incorrectCharacters = 0
    /\ ret.finalStats.mistakes = 0
    /\ ret.finalStats.accuracy = ToNumber(100)
    /\ ret.netWPM = IntResult(ret.finalStats.wpm)

\* 'the cat sat' typed exactly in 10 seconds: 11 correct, 13 WPM, net 13
C23_Witness ==
  /\ call.fn = "completionStats"
  /\ call.testText = TheCatSat /\ call.typedText = TheCatSat
  /\ call.finalTimeElapsed = 10
  /\ ret.finalStats.correctCharacters = 11
  /\ ret.finalStats.wpm = 13
  /\ ret.finalStats.accuracy = ToNumber(100)
  /\ ret.netWPM = IntResult(13)

\* ------------------------------------------------------------------- C24
\* C24: getCharacterStates returns one state per position of the target:
\* 'correct' or 'incorrect' by comparison at every typed position, 'current'
\* at the untyped position of the cursor, 'pending' at every other untyped
\* position; with the cursor at len(typed) at most one position is
\* 'current' and it is the first untyped one
C24_CharacterStates ==
  call.fn = "getCharacterStates" =>
    LET o == call.originalText
        t == call.typedText
        p == call.currentPosition
    IN  /\ Len(ret) = Len(o)
        /\ \A n \in 1..Len(o) :
             /\ n <= Len(t) /\ o[n] = t[n] => ret[n] = "correct"
             /\ n <= Len(t) /\ o[n] # t[n] => ret[n] = "incorrect"
             /\ n > Len(t) /\ n - 1 = p => ret[n] = "current"
             /\ n > Len(t) /\ n - 1 # p => ret[n] = "pending"
        /\ p = Len(t) =>
             /\ Cardinality({n \in 1..Len(o) : ret[n] = "current"}) <= 1
             /\ \A n \in 1..Len(o) : ret[n] = "current" => n = Len(t) + 1

\* a correct, an incorrect and the current character
C24_Witness ==
  /\ call.fn = "getCharacterStates"
  /\ call.originalText = <<"a", "b", "c">>
  /\ call.typedText = <<"a", "d">>
  /\ call.currentPosition = 2
  /\ ret = <<"correct", "incorrect", "current">>

\* ------------------------------------------------------------------- C25
\* C25: when the write of the result throws, the session still becomes
\* Complete, not active and its timer cleared, and the completion callback
\* receives the finalized result, as it does when the write succeeds
C25_FailedSaveCompletes ==
  (faults.storage /\ currentView = "results") =>
    /\ isComplete /\ ~isActive /\ intervalRef = NULL
    /\ testResult.kind = "result"

\* ------------------------------------------------------------------- C26
\* C26: an audio context that cannot be created and a beep that cannot be
\* played never reach the session: no cue and no preload takes the
\* application down
C26_AudioNeverPropagates ==
  faults.audio # "none" => currentView # "crashed"

\* ------------------------------------------------------------------- C27
\* the tokens of a text: what lies between its spaces
RECURSIVE SplitSpace(_, _)
SplitSpace(s, token) ==
  IF s = <<>> THEN <<token>>
  ELSE IF Head(s) = SP THEN <<token>> \o SplitSpace(Tail(s), <<>>)
  ELSE SplitSpace(Tail(s), Append(token, Head(s)))

Tokens(s) == SplitSpace(s, <<>>)

WordSet(words) == {words[i] : i \in 1..Len(words)}

\* C27: generateText('words', n) returns, for n >= 1 and every outcome of
\* the draws, exactly n tokens separated by single spaces, each of them a
\* word of the word list
C27_WordCount ==
  (call.fn = "generateText" /\ call.mode = "words" /\ call.length >= 1) =>
    /\ Len(Tokens(ret)) = call.length
    /\ \A i \in 1..Len(Tokens(ret)) : Tokens(ret)[i] \in WordSet(GenWords)

\* three words were asked for and the text repeats a word
C27_Witness ==
  /\ call.fn = "generateText" /\ call.mode = "words" /\ call.length = 3
  /\ ret = <<"b", "c", SP, "a", SP, "b", "c">>

\* ------------------------------------------------------------------- C28
\* C28: generateText returns a non-empty string for every mode and every
\* target length from 0 on, whatever the draws
C28_NonEmpty ==
  call.fn = "generateText" => ret # <<>>

\* ------------------------------------------------------------------- C29
\* the words a mixed text is made of
Vocabulary ==
  WordSet(MixedWords) \cup
  UNION {WordSet(Tokens(GenSentences[i])) : i \in 1..Len(GenSentences)}

\* C29: generateText('mixed', L) ends at a word boundary: the text is made
\* of whole words, reaches position L and holds no space from position L on
C29_WordBoundary ==
  (call.fn = "generateText" /\ call.mode = "mixed") =>
    /\ ret # <<>> => \A i \in 1..Len(Tokens(ret)) : Tokens(ret)[i] \in Vocabulary
    /\ Len(ret) >= call.length
    /\ \A p \in (call.length + 1)..Len(ret) : ret[p] # SP

\* ------------------------------------------------------------------- C30
\* the sequences of pairwise-distinct indices of a list of n elements
DistinctSeqs(n) ==
  {ix \in UNION {SeqsOfLen(1..n, k) : k \in 1..n} :
     \A i, j \in 1..Len(ix) : i # j => ix[i] # ix[j]}

\* C30: generateText('sentences', L) returns at least one sentence, the
\* sentences pairwise distinct and joined by spaces; unless it is the
\* fallback sentence alone, it is at most L + 50 characters long
C30_Sentences ==
  (call.fn = "generateText" /\ call.mode = "sentences") =>
    /\ \E ix \in DistinctSeqs(Len(GenSentences)) :
         ret = JoinSpace([i \in 1..Len(ix) |-> GenSentences[ix[i]]])
    /\ ret # GenSentences[1] => Len(ret) <= call.length + 50

\* two sentences were joined
C30_Witness ==
  /\ call.fn = "generateText" /\ call.mode = "sentences" /\ call.length = 6
  /\ ret = <<"a", SP, "b", SP, "c", "d">>

\* the fallback sentence, longer than L + 50, was returned
C30_WitnessFallback ==
  /\ call.fn = "generateText" /\ call.mode = "sentences"
  /\ ret = GenSentences[1] /\ Len(ret) > call.length + 50

\* ------------------------------------------------------------------- C31
\* the interval timers that are live
LiveIntervals == {id \in IntervalIds : intervals[id] # NoTimer}

\* C31: at most one interval timer is live at any time - whoever creates an
\* interval has cancelled the one created before - and none is live once
\* the session is complete, paused, restarted or unmounted.
C31_OneLiveInterval ==
  /\ Cardinality(LiveIntervals) <= 1
  /\ ~RunningNow => LiveIntervals = {}

\* ------------------------------------------------------------------- C32
\* the result saved by this step is that of the typed text typed against
\* the target text target
ResultIsOf(target, typed) ==
  LET r == saved'[Len(saved')]
  IN  /\ r.typedText = typed
      /\ r.totalCharacters = Len(typed)
      /\ r.mistakeDetails = analyzeTypedText(target, typed).mistakes

\* C32: whichever trigger completes the session - the tick of an interval
\* or an input - the result is built from the typed text and the target
\* text of that moment, not from those an earlier render captured: its
\* totalCharacters is the length of the typed text at completion and its
\* mistakeDetails the analysis of that text against the target text.
C32_ResultOfCurrentValues ==
  [][/\ \A id \in IntervalIds :
          (Tick(id) /\ Len(saved') = Len(saved) + 1) =>
            ResultIsOf(testText, typedText)
     /\ \A value \in InputValues(typedText) :
          (HandleInputValue(value) /\ Len(saved') = Len(saved) + 1) =>
            ResultIsOf(testText, value)]_vars

\* ------------------------------------------------------------------- C33
\* a session that is running becomes complete or is paused in the end
C33_CompleteUnlessPaused == RunningNow ~> (isComplete \/ isPaused)

\* C33: a session that has been started and is not restarted, and that is
\* never paused or is resumed after every pause, reaches Complete in the
\* end, the interval ticks being fair; and it is never found running with
\* the time limit reached.
C33_EventuallyComplete ==
  /\ [](RunningNow => timeElapsed < timeLimit * TicksPerSecond)
  /\ ([]<>(~isPaused)) => (isActive ~> isComplete)

\* ------------------------------------------------------------------- C34
\* C34: while one session stays active, no tick of either interval and no
\* pause or resume makes timeElapsed smaller.
C34_TimeNeverDecreases ==
  [][(/\ TickStep \/ TogglePause
      /\ isActive /\ isActive'
      /\ session' = session)
       => timeElapsed' >= timeElapsed]_vars

\* ------------------------------------------------------------------- C35
\* C35: the flags stand for one of Idle, Running, Paused and Complete at
\* any time: isActive and isComplete are never both true, and isPaused is
\* true only while isActive is, so neither in Idle nor in Complete - not
\* even when the session is completed while it is paused.
C35_OneSessionState ==
  /\ ~(isActive /\ isComplete)
  /\ isPaused => isActive

\* ------------------------------------------------------------------- C36
\* C36: every saved result carries an elapsed time above zero and not
\* above its time limit, however late the ticks come, and its net WPM was
\* computed with an elapsed time above zero.
C36_ResultTimeWithinLimit ==
  \A i \in 1..Len(saved) :
     /\ saved[i].timeElapsed > 0
     /\ saved[i].timeElapsed <= saved[i].timeLimit * TicksPerSecond
     /\ saved[i].netWPM.timeElapsed > 0

\* ------------------------------------------------------------------- C37
\* C37: an input longer than the target text does nothing at all: the
\* typed text stays, and with it and the target text and the elapsed time
\* the live statistics and the character states computed from them, and no
\* keyPress or keyError cue is played for the rejected character.
C37_TooLongInputIsNoOp ==
  [][(HandleInputChange /\ lastEvent' = "inputTooLong") =>
       (/\ UNCHANGED <<typedText, testText, timeElapsed, timeLimit,
                       isActive, isPaused, isComplete>>
        /\ getCharacterStates(testText', typedText', Len(typedText'))
             = getCharacterStates(testText, typedText, Len(typedText))
        /\ played' \cap {"keyPress", "keyError"} = {})]_vars

\* ------------------------------------------------------------------- C38
\* the last n elements of s, or all of s if it has fewer
LastN(s, n) == SubSeq(s, Max(1, Len(s) - n + 1), Len(s))

\* C38: whatever calls of saveTestResult and clearTestResults were made,
\* the store holds at most 100 results, and they are the records written
\* since the last clear, or the latest 100 of them, in the order in which
\* they were written; a save that succeeds returns the record it stored:
\* the result it was given with an id and a timestamp.
C38_StoredResults ==
  /\ Len(saved) <= StoreLimit
  /\ saved = LastN(history, StoreLimit)
  /\ (call.fn = "saveTestResult" /\ ret # NoResult) =>
       /\ ret = saved[Len(saved)]
       /\ DOMAIN ret = DOMAIN call.result \cup {"id", "timestamp"}
       /\ \A f \in DOMAIN call.result \ {"timestamp"} : ret[f] = call.result[f]
       /\ ret.id = writes
       /\ ret.timestamp = ToISOString(writes)

\* more than 100 results were written and the oldest ones are gone
C38_Witness ==
  /\ call.fn = "saveTestResult" /\ ret # NoResult
  /\ Len(history) > StoreLimit
  /\ Len(saved) = StoreLimit
  /\ saved[1] = history[Len(history) - StoreLimit + 1]
  /\ saved[1] # history[1]
  /\ saved[StoreLimit] = ret

\* ------------------------------------------------------------------- C39
\* the number of positions of states that hold the state st
CountStates(states, st) ==
  Cardinality({i \in 1..Len(states) : states[i] = st})

\* C39: for every target text and typed text, the analysis counts every
\* typed character once, as correct or as incorrect, and
\* totalCharacters is the length of the typed text; there is one mistake
\* for each incorrect character; and the states hold 'missed' once for
\* each character of the target beyond the typed text.
C39_AnalysisCounts ==
  call.fn = "analyzeTypedText" =>
    /\ ret.correctCharacters + ret.incorrectCharacters = ret.totalCharacters
    /\ ret.totalCharacters = Len(call.typedText)
    /\ Len(ret.mistakes) = ret.incorrectCharacters
    /\ CountStates(ret.characterStates, "missed")
         = Max(0, Len(call.originalText) - Len(call.typedText))

\* a typed text longer than the target, with a correct, a wrong and an
\* extra character
C39_Witness ==
  /\ call.fn = "analyzeTypedText"
  /\ Len(call.originalText) = 2
  /\ Len(call.typedText) = 3
  /\ ret.correctCharacters = 1
  /\ ret.incorrectCharacters = 2
  /\ Len(ret.mistakes) = 2
  /\ CountStates(ret.characterStates, "missed") = 0

\* a target of which one character was typed and two are missed
C39_WitnessMissed ==
  /\ call.fn = "analyzeTypedText"
  /\ Len(call.originalText) = 3
  /\ Len(call.typedText) = 1
  /\ CountStates(ret.characterStates, "missed") = 2
====
